---- MODULE Spec2Model ----
(***************************************************************************)
(* File-Watcher: the stable-copy synchronisation engine.                   *)
(*                                                                         *)
(*   FileSyncHandler  (src/file_monitor.py)  event filter, debounce,       *)
(*                    _wait_for_file_ready, _copy_file                     *)
(*   FileMonitor      (src/file_monitor.py)  start / stop of the sessions  *)
(*   ConfigManager    (src/config_manager.py) load, projects, enabled set  *)
(*   TrayApp          (src/tray_app.py)      reload, toggles, marker poll  *)
(*                                                                         *)
(* Time is counted in ticks of 100 ms.                                     *)
(***************************************************************************)
EXTENDS Integers, Sequences, FiniteSets, TLC

\* ------------------------------------------------------------ constants
max_retries == 5
initial_retry_delay == 5
stable_check_count == 3
debounce_window == 10
default_wait_timeout == 100
default_check_interval == 2
default_initial_delay == 5
no_size == -1

\* --------------------------------------------------------------- bounds
PollBudget == 6
MaxContent == 2
MaxQueue == 2
MaxEvents == 3
HandlerPolls == 4
WriteDuration == 15
MaxHold == 20
ScenarioEnd == 70
MaxReloads == 2
MaxEdits == 2

Sizes == 0..1
Mtimes == {0, 9, 10}

NoTime == -1000

VARIABLES
  \* FileSyncHandler: its fields and the locals of the call in progress
  hcfg,            \* open_dir, wait_for_complete, wait_timeout, check_interval, initial_delay
  hpc,             \* where the handler (observer) thread is
  sleep_left,      \* ticks left of the time.sleep() the thread is in
  last_copy_time,  \* self.last_copy_time[file_path], NoTime when the key is absent
  elapsed,         \* time.time() - start_time of _wait_for_file_ready
  last_size,
  stable_count,
  wres,            \* what the last _wait_for_file_ready returned
  attempt,
  retry_delay,
  cres,            \* what the last _copy_file logged: "ok" (info) or "fail" (error)
  opens,           \* calls of _open_directory made by the last _copy_file
  open_err,        \* os.startfile raised inside that _open_directory
  \* the file system and the observer's event queue
  source,
  target,
  queue,
  \* what was observed
  polls,           \* the poll outcomes of the wait in progress
  outcomes,        \* the attempt outcomes of the copy in progress
  sleeps,          \* the delays slept by the copy in progress
  handled,         \* per event that passed the filter: the mtime read, whether _copy_file was called, whether it copied
  emitted,         \* notifications raised so far
  wait_at,         \* when the last _wait_for_file_ready was called and when it returned
  \* the clock and the process writing the source file
  now,
  writer,
  \* TrayApp, ConfigManager, the FileMonitors and their observer threads
  disk,            \* config.json: whether it parses, and its 'projects' enabled flags
  marker,          \* the .reload_config file exists
  dirs,            \* the mappings whose source directory exists
  cm,              \* ConfigManager.projects: the enabled flag of each project
  file_monitor,    \* TrayApp.file_monitor: which FileMonitor it refers to
  monitors,        \* per FileMonitor created: self.mappings, self.observers, len(self.handlers)
  sessions,        \* the observer threads that have not terminated: monitor, mapping, state
  tpc,             \* where each thread is in _reload_config
  tmon,            \* the FileMonitor whose stop() a thread is in
  tstopped,        \* the observers that stop() signalled and that are still running
  tenabled,        \* enabled_mappings, the local of a thread's _reload_config
  applied,         \* the enabled mappings of the last _reload_config to return, and whether it loaded
  reloads,         \* calls of _reload_config so far
  edits,           \* changes made to config.json from outside the tray so far
  requested,       \* the flags the toggle in progress has set, per project it set
  running,         \* TrayApp.running
  gui,             \* the configuration window: whether it has loaded, its checkboxes, those the user changed
  \* ConfigManager over the whole of config.json, and main()
  cfile,           \* config.json: whether it parses, its 'mappings' and its 'projects'
  cmgr,            \* ConfigManager.mappings and ConfigManager.projects
  previous,        \* self.projects as load_config read it from the file (l.97)
  loadres,         \* what the last load_config returned
  startup,         \* what main() returned, and whether it created the FileMonitor
  nloads,          \* calls of load_config so far
  nedits,          \* changes made to the 'projects' of config.json by hand so far
  naming,          \* a mapping's two paths as segment lists, and the project name derived from them
  \* the mapping dicts, the FileMonitor over them and its handlers
  wfile,           \* config.json: its 'mappings' (dict values) and its 'projects' enabled flags
  dicts,           \* the mapping dict objects that are still referred to
  cmappings,       \* ConfigManager.mappings: per index, the dict it refers to
  cprojects,       \* ConfigManager.projects: the enabled flag of each project
  fm_mappings,     \* FileMonitor.mappings of TrayApp.file_monitor: per index, the dict it refers to
  handlers,        \* the FileSyncHandlers whose observer thread has not ended: fields and position
  wpc,             \* where the supervisor thread is in main() / _reload_config
  wmtime,          \* st_mtime of each source file
  copied,          \* the last copy made: by which handler, into which directory, with which other handlers blocked
  wstarts,         \* passes through get_enabled_mappings / FileMonitor.start so far
  wedits           \* changes made to the mappings of config.json from outside so far

waitVars == <<elapsed, last_size, stable_count, wres, wait_at>>
copyVars == <<attempt, retry_delay, cres, opens, open_err>>
copyHist == <<outcomes, sleeps>>
fsVars == <<source, target>>
handlerVars == <<hcfg, hpc, sleep_left, last_copy_time, waitVars, copyVars, fsVars,
                 queue, polls, copyHist, handled, emitted, now, writer>>
supVars == <<disk, marker, dirs, cm, file_monitor, monitors, sessions,
             tpc, tmon, tstopped, tenabled, applied, reloads, edits, requested,
             running, gui>>
cfgVars == <<cfile, cmgr, previous, loadres, startup, nloads, nedits, naming>>
watchVars == <<wfile, dicts, cmappings, cprojects, fm_mappings, handlers, wpc, wmtime,
               copied, wstarts, wedits>>
vars == <<handlerVars, supVars, cfgVars, watchVars>>

\* What the handler's steps leave alone.
outside == <<now, writer, supVars, cfgVars, watchVars>>

\* The mapping list of config.json, by index, and the project each mapping's
\* paths name.
Maps == 1..2
Projects == {"A", "B"}
ProjectOf == [m \in Maps |-> IF m = 1 THEN "A" ELSE "B"]
Threads == {"menu", "poll"}

\* No toggle is in progress.
NoRequest == [p \in {} |-> TRUE]

\* The configuration window is not open.
GuiClosed == [open |-> FALSE, vars |-> [p \in Projects |-> TRUE], changed |-> {}]

\* The supervisor as the single-handler specifications have it: started, and
\* left alone.
SupervisorAtRest ==
  /\ disk = [valid |-> TRUE, projects |-> [p \in Projects |-> TRUE]]
  /\ marker = FALSE
  /\ dirs = Maps
  /\ cm = [p \in Projects |-> TRUE]
  /\ file_monitor = 1
  /\ monitors = <<[mappings |-> Maps, observers |-> {1, 2}, handlers |-> 2]>>
  /\ sessions = [s \in {1, 2} |-> [mon |-> 1, map |-> s, st |-> "idle"]]
  /\ tpc = [t \in Threads |-> "idle"]
  /\ tmon = [t \in {} |-> 1]
  /\ tstopped = [t \in Threads |-> {}]
  /\ tenabled = [t \in {} |-> {}]
  /\ applied = [ok |-> TRUE, enabled |-> Maps]
  /\ running = TRUE
  /\ gui = GuiClosed
  /\ reloads = 0
  /\ edits = 0
  /\ requested = NoRequest

\* No project name is being derived.
NoNaming == [source |-> <<>>, target |-> <<>>, name |-> "none"]

\* The configuration as the other specifications have it: loaded, and left
\* alone.
ConfigAtRest ==
  /\ cfile = [parses |-> TRUE, islist |-> TRUE, mappings |-> <<>>, projects |-> <<>>]
  /\ cmgr = [islist |-> TRUE, mappings |-> <<>>, projects |-> <<>>]
  /\ previous = <<>>
  /\ loadres = "none"
  /\ startup = [returned |-> "no", file_monitor |-> FALSE]
  /\ nloads = 0
  /\ nedits = 0
  /\ naming = NoNaming

NoCopy == [handler |-> <<0, 0>>, dir |-> "", blocked |-> {}]

\* No mapping loaded and no handler created.
WatchersAtRest ==
  /\ wfile = [mappings |-> <<>>, projects |-> <<>>]
  /\ dicts = <<>>
  /\ cmappings = <<>>
  /\ cprojects = <<>>
  /\ fm_mappings = <<>>
  /\ handlers = <<>>
  /\ wpc = "idle"
  /\ wmtime = <<>>
  /\ copied = NoCopy
  /\ wstarts = 0
  /\ wedits = 0

NoWriter == [phase |-> "none", stop_at |-> NoTime, released_at |-> NoTime]

Absent == [exists |-> FALSE, content |-> 0, mtime |-> 0]

HandlerDefaults ==
  [open_dir |-> FALSE, wait_for_complete |-> TRUE,
   wait_timeout |-> default_wait_timeout,
   check_interval |-> default_check_interval,
   initial_delay |-> default_initial_delay]

\* time.sleep() returning: in the untimed specifications the sleep simply ends.
SleepOver ==
  /\ sleep_left > 0
  /\ sleep_left' = 0
  /\ UNCHANGED <<outside, hcfg, hpc, last_copy_time, waitVars, copyVars, fsVars, queue,
                 polls, copyHist, handled, emitted>>

\* ===================================================== _copy_file
PermErrors == {"perm_unlink", "perm_copy"}
OtherErrors == {"other_unlink", "other_copy"}
AttemptOutcomes == {"ok"} \cup PermErrors \cup OtherErrors

\* What one pass of the loop body can do, given the target: unlink can only
\* fail when there is a target to unlink.
PossibleOutcomes(t) ==
  IF t.exists THEN AttemptOutcomes ELSE {"ok", "perm_copy", "other_copy"}

\* shutil.copy2: bytes and metadata.
Copy2_NoStat(s) == [exists |-> TRUE, content |-> s.content, mtime |-> s.mtime + 1]
Copy2(s) == [exists |-> TRUE, content |-> s.content, mtime |-> s.mtime]

\* The target after one pass of the loop body: an error raised by unlink
\* leaves it, an error raised by copy2 comes after the unlink.
TargetAfter(t, s, o) ==
  CASE o = "ok" -> Copy2(s)
    [] o \in {"perm_unlink", "other_unlink"} -> t
    [] OTHER -> Absent

LastAttempt(a) == ~(a < max_retries - 1)

NextRetryDelay_Fixed(o, d) == d
NextRetryDelay(o, d) == IF o \in PermErrors THEN d * 2 ELSE d

\* Entry of _copy_file: target_dir.mkdir(parents, exist_ok); an error there
\* goes to the outer except and is logged.
CopyMkdir ==
  /\ hpc = "mkdir"
  /\ sleep_left = 0
  /\ \/ /\ hpc' = "attempt"
        /\ cres' = "none"
     \/ /\ hpc' = "idle"
        /\ cres' = "fail"
  /\ attempt' = 0
  /\ retry_delay' = initial_retry_delay
  /\ opens' = 0
  /\ open_err' = FALSE
  /\ outcomes' = <<>>
  /\ sleeps' = <<>>
  /\ handled' = [handled EXCEPT ![Len(handled)].copy = TRUE]
  /\ UNCHANGED <<outside, hcfg, sleep_left, last_copy_time, waitVars, fsVars, queue, polls, emitted>>

\* _open_directory: os.startfile may raise when it is called; the exception is
\* caught and logged inside (l.245-248) and does not reach _copy_file.
StartfileRaises(open_dir) == IF open_dir THEN BOOLEAN ELSE {FALSE}
OpenEscapes_Unhandled(f) == f
OpenEscapes(f) == FALSE

\* One pass of the retry loop with outcome o.
CopyAttemptCore(o) ==
  /\ hpc = "attempt"
  /\ sleep_left = 0
  /\ o \in PossibleOutcomes(target)
  /\ target' = TargetAfter(target, source, o)
  /\ \E f \in IF o = "ok" THEN StartfileRaises(hcfg.open_dir) ELSE {FALSE} :
       IF o = "ok" /\ ~OpenEscapes(f)
         THEN /\ cres' = "ok"
              /\ opens' = IF hcfg.open_dir THEN opens + 1 ELSE opens
              /\ open_err' = f
              /\ hpc' = "idle"
              /\ handled' = [handled EXCEPT ![Len(handled)].ok = TRUE]
              /\ UNCHANGED <<attempt, retry_delay, sleep_left>>
         ELSE IF LastAttempt(attempt)
           THEN /\ cres' = "fail"
                /\ hpc' = "idle"
                /\ UNCHANGED <<attempt, retry_delay, sleep_left, opens, open_err, handled>>
           ELSE /\ sleep_left' = retry_delay
                /\ retry_delay' = NextRetryDelay(o, retry_delay)
                /\ attempt' = attempt + 1
                /\ UNCHANGED <<hpc, cres, opens, open_err, handled>>
  /\ UNCHANGED <<outside, hcfg, last_copy_time, waitVars, source, queue, polls, emitted>>

\* The same, with the outcome and the delay slept written down.
CopyAttempt(o) ==
  /\ CopyAttemptCore(o)
  /\ outcomes' = Append(outcomes, o)
  /\ sleeps' = IF sleep_left' > 0 THEN Append(sleeps, sleep_left') ELSE sleeps

\* _copy_file called on a source file that exists, with and without an old target.
InitCopy ==
  /\ SupervisorAtRest
  /\ ConfigAtRest
  /\ WatchersAtRest
  /\ hcfg \in {[HandlerDefaults EXCEPT !.open_dir = b] : b \in BOOLEAN}
  /\ hpc = "mkdir"
  /\ sleep_left = 0
  /\ last_copy_time \in 0..1
  /\ elapsed = 0 /\ last_size = no_size /\ stable_count = 0 /\ wres = "none"
  /\ wait_at = [called |-> NoTime, returned |-> NoTime]
  /\ now = 0 /\ writer = NoWriter
  /\ attempt = 0 /\ retry_delay = initial_retry_delay
  /\ cres = "none" /\ opens = 0 /\ open_err = FALSE
  /\ source \in [exists : {TRUE}, content : 1..MaxContent, mtime : 1..2, locked : {FALSE}]
  /\ target \in {Absent, [exists |-> TRUE, content |-> 0, mtime |-> 0]}
  /\ queue = <<>>
  /\ polls = <<>> /\ outcomes = <<>> /\ sleeps = <<>>
  /\ handled = <<[mtime |-> last_copy_time, copy |-> FALSE, ok |-> FALSE]>>
  /\ emitted = 0

NextCopy ==
  \/ CopyMkdir
  \/ \E o \in AttemptOutcomes : CopyAttempt(o)
  \/ SleepOver

SpecCopy == InitCopy /\ [][NextCopy]_vars

\* ---------------------------------------------------------------- C9
AllPermissionErrors == \A i \in 1..Len(outcomes) : outcomes[i] \in PermErrors

DoublingDelays(n) == [i \in 1..n |-> initial_retry_delay * 2^(i-1)]

\* C9: while every attempt of _copy_file raises a permission error, the delays
\* slept are 0.5 s, 1 s, 2 s, 4 s (one after each of the first four attempts,
\* none after the fifth); the call returns exactly after the fifth attempt and
\* logs the failure.
C9_PermissionRetries ==
  (Len(outcomes) > 0 /\ AllPermissionErrors) =>
    /\ Len(outcomes) <= max_retries
    /\ (hpc = "idle") = (Len(outcomes) = max_retries)
    /\ sleeps = DoublingDelays(IF hpc = "idle" THEN max_retries - 1 ELSE Len(outcomes))
    /\ hpc = "idle" => cres = "fail"
    /\ hpc # "idle" => cres = "none"

C9_Witness ==
  /\ hpc = "idle"
  /\ Len(outcomes) = max_retries
  /\ AllPermissionErrors
  /\ sleeps = <<5, 10, 20, 40>>
  /\ cres = "fail"

\* ---------------------------------------------------------------- C10
\* C10: when attempt N succeeds after N-1 failed attempts, the target holds the
\* source's bytes and modification time, the success is logged, and the loop is
\* left: the successful attempt is the last one made.
C10_SuccessOnRetry ==
  cres = "ok" =>
    /\ hpc = "idle"
    /\ sleep_left = 0
    /\ Len(outcomes) \in 1..max_retries
    /\ Len(outcomes) = attempt + 1
    /\ outcomes[Len(outcomes)] = "ok"
    /\ \A i \in 1..(Len(outcomes) - 1) : outcomes[i] # "ok"
    /\ target = [exists |-> TRUE, content |-> source.content, mtime |-> source.mtime]

C10_Witness ==
  /\ cres = "ok"
  /\ Len(outcomes) = 3
  /\ outcomes[1] = "perm_copy"
  /\ outcomes[2] = "other_copy"
  /\ target.content = source.content

\* ===================================================== _wait_for_file_ready
\* What one pass of the polling loop finds: the file missing, stat() raising
\* OSError, or a size; unlocked says whether open(file, 'r+b') would succeed.
Missing == [kind |-> "missing", size |-> 0, unlocked |-> FALSE]
StatError == [kind |-> "staterr", size |-> 0, unlocked |-> FALSE]
SizeSamples == [kind : {"size"}, size : Sizes, unlocked : BOOLEAN]
Observations == {Missing, StatError} \cup SizeSamples

StreakReached_Two(n) == n >= stable_check_count - 1
StreakReached(n) == n >= stable_check_count

\* The loop body: the new last_size and stable_count, and whether it returns True.
PollStep_ResetOnLock(ls, sc, obs) ==
  CASE obs.kind = "missing" -> [last_size |-> ls, stable_count |-> sc, ready |-> FALSE]
    [] obs.kind = "staterr" -> [last_size |-> ls, stable_count |-> 0, ready |-> FALSE]
    [] OTHER ->
         IF obs.size = ls
           THEN [last_size |-> ls,
                 stable_count |-> IF StreakReached(sc + 1) /\ ~obs.unlocked THEN 0 ELSE sc + 1,
                 ready |-> StreakReached(sc + 1) /\ obs.unlocked]
           ELSE [last_size |-> obs.size, stable_count |-> 0, ready |-> FALSE]
PollStep(ls, sc, obs) ==
  CASE obs.kind = "missing" -> [last_size |-> ls, stable_count |-> sc, ready |-> FALSE]
    [] obs.kind = "staterr" -> [last_size |-> ls, stable_count |-> 0, ready |-> FALSE]
    [] OTHER ->
         IF obs.size = ls
           THEN [last_size |-> ls, stable_count |-> sc + 1,
                 ready |-> StreakReached(sc + 1) /\ obs.unlocked]
           ELSE [last_size |-> obs.size, stable_count |-> 0, ready |-> FALSE]

\* Entry: the initial delay, then start_time, last_size and stable_count are set.
WaitEnter ==
  /\ hpc = "wait"
  /\ sleep_left = 0
  /\ sleep_left' = hcfg.initial_delay
  /\ elapsed' = 0
  /\ last_size' = no_size
  /\ stable_count' = 0
  /\ wres' = "none"
  /\ wait_at' = [called |-> now, returned |-> NoTime]
  /\ hpc' = "poll"
  /\ polls' = <<>>
  /\ UNCHANGED <<outside, hcfg, last_copy_time, copyVars, fsVars, queue, copyHist, handled, emitted>>

\* One pass of the while loop that finds obs; every path that does not return
\* sleeps check_interval.
WaitPollCore(obs) ==
  /\ hpc = "poll"
  /\ sleep_left = 0
  /\ elapsed < hcfg.wait_timeout
  /\ LET r == PollStep(last_size, stable_count, obs) IN
       /\ last_size' = r.last_size
       /\ stable_count' = r.stable_count
       /\ IF r.ready
            THEN /\ wres' = "true"
                 /\ wait_at' = [wait_at EXCEPT !.returned = now]
                 /\ hpc' = "waited"
                 /\ UNCHANGED <<elapsed, sleep_left>>
            ELSE /\ sleep_left' = hcfg.check_interval
                 /\ elapsed' = elapsed + hcfg.check_interval
                 /\ UNCHANGED <<wres, hpc, wait_at>>
  /\ UNCHANGED <<outside, hcfg, last_copy_time, copyVars, fsVars, queue, copyHist, handled, emitted>>

\* The loop condition failing: the timeout is logged and False returned.
WaitTimeout ==
  /\ hpc = "poll"
  /\ sleep_left = 0
  /\ ~(elapsed < hcfg.wait_timeout)
  /\ wres' = "false"
  /\ wait_at' = [wait_at EXCEPT !.returned = now]
  /\ hpc' = "waited"
  /\ UNCHANGED <<outside, hcfg, sleep_left, last_copy_time, elapsed, last_size, stable_count,
                 copyVars, fsVars, queue, polls, copyHist, handled, emitted>>

\* A wait that may find anything at each poll.
WaitPollAny(obs) == WaitPollCore(obs) /\ polls' = Append(polls, obs)

InitWait ==
  /\ SupervisorAtRest
  /\ ConfigAtRest
  /\ WatchersAtRest
  /\ hcfg = [HandlerDefaults EXCEPT !.wait_timeout = PollBudget * default_check_interval]
  /\ hpc = "wait"
  /\ sleep_left = 0
  /\ last_copy_time = 0
  /\ elapsed = 0 /\ last_size = no_size /\ stable_count = 0 /\ wres = "none"
  /\ wait_at = [called |-> NoTime, returned |-> NoTime]
  /\ now = 0 /\ writer = NoWriter
  /\ attempt = 0 /\ retry_delay = initial_retry_delay
  /\ cres = "none" /\ opens = 0 /\ open_err = FALSE
  /\ source = [exists |-> TRUE, content |-> 1, mtime |-> 0, locked |-> FALSE]
  /\ target = Absent
  /\ queue = <<>>
  /\ polls = <<>> /\ outcomes = <<>> /\ sleeps = <<>>
  /\ handled = <<[mtime |-> last_copy_time, copy |-> FALSE, ok |-> FALSE]>>
  /\ emitted = 0

NextWait ==
  \/ WaitEnter
  \/ \E obs \in Observations : WaitPollAny(obs)
  \/ WaitTimeout
  \/ SleepOver

SpecWait == InitWait /\ [][NextWait]_vars

\* ---------------------------------------------------------------- C7
Last(q) == q[Len(q)]
Sampled(h) == SelectSeq(h, LAMBDA o : o.kind # "missing")

\* The size read by the latest size sample of q before position i.
SizeBefore(q, i) ==
  LET J == {j \in 1..(i - 1) : q[j].kind = "size"} IN
    IF J = {} THEN no_size ELSE q[CHOOSE j \in J : \A k \in J : k <= j].size

\* Stated on the poll outcomes alone: the last three polls that found the file
\* each read the size that had been read before them (so the same size was read
\* four times, the last three with no stat error between them), and the file
\* opens read-write at the last poll.
StableAndOpen(h) ==
  LET q == Sampled(h) n == Len(Sampled(h)) IN
    /\ Len(h) > 0
    /\ Last(h).kind = "size"
    /\ Last(h).unlocked
    /\ n >= stable_check_count
    /\ \A j \in (n - stable_check_count + 1)..n :
         q[j].kind = "size" /\ q[j].size = SizeBefore(q, n - stable_check_count + 1)

\* Three polls in a row reading one size, the file opening at the third.
ThreeEqualPolls(h) ==
  /\ Len(h) >= 3
  /\ \A j \in (Len(h) - 2)..Len(h) : h[j].kind = "size" /\ h[j].size = Last(h).size
  /\ Last(h).unlocked

EventKinds == {"src", "other", "dir"}

Debounced_Never(mtime, last) == FALSE
\* if file_path in self.last_copy_time and mtime - last_copy_time[file_path] < 1.0
Debounced(mtime, last) == last # NoTime /\ mtime - last < debounce_window

\* The event is for a directory (on_modified, on_created), for a path that is
\* not the resolved source path (l.67), or the file is gone (l.71).
Ignored_PathOnly(kind, exists) == kind # "src"
Ignored(kind, exists) == kind # "src" \/ ~exists

\* on_modified / on_created taking the next event of the queue and running
\* _handle_file_event down to the call of _wait_for_file_ready or _copy_file;
\* staterr: stat() raising OSError.
\* Where an event that passed the filter goes: into the wait when
\* wait_for_complete is set, else straight to _copy_file.
AfterFilter_AlwaysWait(wfc) == "wait"
AfterFilter(wfc) == IF wfc THEN "wait" ELSE "mkdir"

Dispatch(staterr) ==
  /\ hpc = "idle"
  /\ sleep_left = 0
  /\ queue # <<>>
  /\ queue' = Tail(queue)
  /\ IF Ignored(Head(queue), source.exists) \/ staterr
          \/ Debounced(source.mtime, last_copy_time)
       THEN UNCHANGED <<hpc, last_copy_time, handled>>
       ELSE /\ last_copy_time' = source.mtime
            /\ handled' = Append(handled, [mtime |-> source.mtime, copy |-> FALSE, ok |-> FALSE])
            /\ hpc' = AfterFilter(hcfg.wait_for_complete)
  /\ UNCHANGED <<outside, hcfg, sleep_left, waitVars, copyVars, fsVars, polls, copyHist, emitted>>

\* Where the event goes once _wait_for_file_ready has returned w.
AfterWaitGoes_CopyAnyway(w) == "mkdir"
AfterWaitGoes(w) == IF w = "true" THEN "mkdir" ELSE "idle"

\* if not self._wait_for_file_ready(event_file): warning, return; else copy.
AfterWait ==
  /\ hpc = "waited"
  /\ sleep_left = 0
  /\ hpc' = AfterWaitGoes(wres)
  /\ UNCHANGED <<outside, hcfg, sleep_left, last_copy_time, waitVars, copyVars, fsVars, queue,
                 polls, copyHist, handled, emitted>>

\* ---- the environment of one handler
\* The observer queueing a notification.
Notify(k) ==
  /\ Len(queue) < MaxQueue
  /\ emitted < MaxEvents
  /\ queue' = Append(queue, k)
  /\ emitted' = emitted + 1
  /\ UNCHANGED <<outside, hcfg, hpc, sleep_left, last_copy_time, waitVars, copyVars, fsVars,
                 polls, copyHist, handled>>

\* The source file written (or replaced by a file with any modification time):
\* the observer queues a notification for it.
Write(m, c) ==
  /\ Len(queue) < MaxQueue
  /\ emitted < MaxEvents
  /\ source' = [source EXCEPT !.exists = TRUE, !.mtime = m, !.content = c]
  /\ queue' = Append(queue, "src")
  /\ emitted' = emitted + 1
  /\ UNCHANGED <<outside, hcfg, hpc, sleep_left, last_copy_time, waitVars, copyVars, target,
                 polls, copyHist, handled>>

Delete ==
  /\ source.exists
  /\ source' = [source EXCEPT !.exists = FALSE]
  /\ UNCHANGED <<outside, hcfg, hpc, sleep_left, last_copy_time, waitVars, copyVars, target,
                 queue, polls, copyHist, handled, emitted>>

\* What a poll can find given the file: nothing when it is missing, else a stat
\* error or its size, locked or not.
ObservationsOf(f) ==
  IF ~f.exists THEN {Missing}
  ELSE {StatError} \cup {[kind |-> "size", size |-> f.content, unlocked |-> u] : u \in BOOLEAN}

WaitPollFile(obs) ==
  /\ obs \in ObservationsOf(source)
  /\ WaitPollCore(obs)
  /\ UNCHANGED polls

CopyAttemptPlain(o) == CopyAttemptCore(o) /\ UNCHANGED copyHist

InitHandler ==
  /\ SupervisorAtRest
  /\ ConfigAtRest
  /\ WatchersAtRest
  /\ hcfg \in {[HandlerDefaults EXCEPT !.wait_for_complete = b,
                  !.wait_timeout = HandlerPolls * default_check_interval] : b \in BOOLEAN}
  /\ hpc = "idle"
  /\ sleep_left = 0
  /\ last_copy_time = NoTime
  /\ elapsed = 0 /\ last_size = no_size /\ stable_count = 0 /\ wres = "none"
  /\ wait_at = [called |-> NoTime, returned |-> NoTime]
  /\ now = 0 /\ writer = NoWriter
  /\ attempt = 0 /\ retry_delay = initial_retry_delay
  /\ cres = "none" /\ opens = 0 /\ open_err = FALSE
  /\ source = [exists |-> TRUE, content |-> 0, mtime |-> 0, locked |-> FALSE]
  /\ target = Absent
  /\ queue = <<>>
  /\ polls = <<>> /\ outcomes = <<>> /\ sleeps = <<>>
  /\ handled = <<>>
  /\ emitted = 0

NextHandler ==
  \/ \E k \in EventKinds : Notify(k)
  \/ \E m \in Mtimes, c \in Sizes : Write(m, c)
  \/ Delete
  \/ \E e \in BOOLEAN : Dispatch(e)
  \/ WaitEnter
  \/ \E obs \in Observations : WaitPollFile(obs)
  \/ WaitTimeout
  \/ AfterWait
  \/ CopyMkdir
  \/ \E o \in AttemptOutcomes : CopyAttemptPlain(o)
  \/ SleepOver

SpecHandler == InitHandler /\ [][NextHandler]_vars

\* ---------------------------------------------------------------- C5
Abs(x) == IF x < 0 THEN -x ELSE x

\* C5: of the notifications for the source path whose modification times lie
\* within 1 second of each other, at most one reaches _copy_file.
C5_OneCopyPerWindow ==
  \A i, j \in 1..Len(handled) :
    (i < j /\ handled[i].copy /\ handled[j].copy)
      => Abs(handled[j].mtime - handled[i].mtime) >= debounce_window

C5_Witness ==
  /\ emitted = 3
  /\ queue = <<>>
  /\ hpc = "idle"
  /\ Len(handled) = 2
  /\ handled[1].copy /\ handled[2].copy
  /\ handled[2].mtime = 10
  /\ source.mtime = 9
  /\ last_copy_time = 10

\* ===================================================== a writer, on the clock
\* The source file is created at time 0 and written at every tick by a process
\* that holds it open exclusively; the process stops writing at some time up to
\* WriteDuration and closes the file up to MaxHold later. The handler's steps
\* take no time; its sleeps take what they say.
WriterWrite ==
  /\ writer.phase = "writing"
  /\ source.mtime < now
  /\ source' = [source EXCEPT !.content = @ + 1, !.mtime = now]
  /\ IF Len(queue) < MaxQueue
       THEN queue' = Append(queue, "src") /\ emitted' = emitted + 1
       ELSE UNCHANGED <<queue, emitted>>
  /\ UNCHANGED <<hcfg, hpc, sleep_left, last_copy_time, waitVars, copyVars, target,
                 polls, copyHist, handled, now, writer, supVars, cfgVars, watchVars>>

WriterStop ==
  /\ writer.phase = "writing"
  /\ source.mtime = now
  /\ writer' = [writer EXCEPT !.phase = "closing", !.stop_at = now]
  /\ UNCHANGED <<hcfg, hpc, sleep_left, last_copy_time, waitVars, copyVars, fsVars,
                 queue, polls, copyHist, handled, emitted, now, supVars, cfgVars, watchVars>>

WriterRelease ==
  /\ writer.phase = "closing"
  /\ writer' = [writer EXCEPT !.phase = "released", !.released_at = now]
  /\ source' = [source EXCEPT !.locked = FALSE]
  /\ UNCHANGED <<hcfg, hpc, sleep_left, last_copy_time, waitVars, copyVars, target,
                 queue, polls, copyHist, handled, emitted, now, supVars, cfgVars, watchVars>>

HandlerCanStep == sleep_left = 0 /\ ~(hpc = "idle" /\ queue = <<>>)

Tick ==
  /\ now < ScenarioEnd
  /\ ~HandlerCanStep
  /\ writer.phase = "writing" => (source.mtime = now /\ now < WriteDuration)
  /\ writer.phase = "closing" => now - writer.stop_at < MaxHold
  /\ now' = now + 1
  /\ sleep_left' = IF sleep_left > 0 THEN sleep_left - 1 ELSE 0
  /\ UNCHANGED <<hcfg, hpc, last_copy_time, waitVars, copyVars, fsVars, queue,
                 polls, copyHist, handled, emitted, writer, supVars, cfgVars, watchVars>>

\* What a poll finds, and what a copy attempt does, with this writer.
ObservationNow == [kind |-> "size", size |-> source.content, unlocked |-> ~source.locked]
OutcomeNow == IF source.locked THEN "perm_copy" ELSE "ok"

WaitPollNow == WaitPollAny(ObservationNow)
CopyAttemptNow == CopyAttemptPlain(OutcomeNow)

InitWriter ==
  /\ SupervisorAtRest
  /\ ConfigAtRest
  /\ WatchersAtRest
  /\ hcfg \in {[HandlerDefaults EXCEPT !.wait_timeout = t] :
                 t \in {default_wait_timeout, PollBudget * default_check_interval}}
  /\ hpc = "idle"
  /\ sleep_left = 0
  /\ last_copy_time = NoTime
  /\ elapsed = 0 /\ last_size = no_size /\ stable_count = 0 /\ wres = "none"
  /\ wait_at = [called |-> NoTime, returned |-> NoTime]
  /\ now = 0
  /\ writer = [phase |-> "writing", stop_at |-> NoTime, released_at |-> NoTime]
  /\ attempt = 0 /\ retry_delay = initial_retry_delay
  /\ cres = "none" /\ opens = 0 /\ open_err = FALSE
  /\ source = [exists |-> TRUE, content |-> 1, mtime |-> 0, locked |-> TRUE]
  /\ target = Absent
  /\ queue = <<"src">>
  /\ polls = <<>> /\ outcomes = <<>> /\ sleeps = <<>>
  /\ handled = <<>>
  /\ emitted = 1

NextWriter ==
  \/ Tick
  \/ WriterWrite
  \/ WriterStop
  \/ WriterRelease
  \/ Dispatch(FALSE)
  \/ WaitEnter
  \/ WaitPollNow
  \/ WaitTimeout
  \/ AfterWait
  \/ CopyMkdir
  \/ CopyAttemptNow

SpecWriter == InitWriter /\ [][NextWriter]_vars

\* ---------------------------------------------------------------- C6
Copies == {i \in 1..Len(handled) : handled[i].ok}

TheScenario ==
  /\ hcfg.wait_timeout = default_wait_timeout
  /\ hcfg.wait_for_complete
  /\ writer.stop_at \in {NoTime, WriteDuration}
  /\ writer.released_at \in {NoTime, WriteDuration}

\* C6 (as claimed): the writer creates the file, writes for 1.5 s and closes it;
\* with a 10 s timeout no copy completes before the file is closed, and the
\* notifications queued meanwhile cause no second copy: there is one copy, of
\* the final content.
C6_ExactlyOneCopy ==
  TheScenario =>
    /\ Cardinality(Copies) <= 1
    /\ \A i \in Copies : writer.phase = "released"
    /\ (Copies # {} /\ hpc = "idle") => target.content = source.content

\* ---------------------------------------------------------------- C8
WaitCalledWhileWriting == wait_at.called # NoTime /\ wait_at.called <= writer.stop_at

HeldFor == writer.released_at - writer.stop_at

\* C8 (as amended): with a writer that stops changing the size at T and releases
\* its lock at T + d, (1) True is never returned before T + d; (2) a poll that
\* finds the lock released and the size as at the three polls before it returns
\* True at once, the streak not being rebuilt; (3) a wait called no later than
\* T returns False unless d < initial_delay + wait_timeout: the timeout is
\* counted from the end of the initial delay; (4) and by then the wait has
\* returned.
C8_ReadyAfterRelease ==
  /\ wres = "true" =>
       /\ writer.phase = "released"
       /\ wait_at.returned >= writer.released_at
  /\ (hpc = "poll" /\ Len(polls) > stable_check_count) =>
       ~(/\ Last(polls).unlocked
         /\ \A i \in (Len(polls) - stable_check_count)..Len(polls) :
              polls[i].size = Last(polls).size)
  /\ (wres = "true" /\ WaitCalledWhileWriting) =>
       HeldFor < hcfg.initial_delay + hcfg.wait_timeout
  /\ (hpc = "poll" /\ wait_at.called # NoTime) =>
       now <= wait_at.called + hcfg.initial_delay + hcfg.wait_timeout

C8_Witness ==
  /\ wres = "true"
  /\ WaitCalledWhileWriting
  /\ stable_count > stable_check_count
  /\ HeldFor > hcfg.wait_timeout

\* C8 (as claimed): a wait called no later than T returns False when the
\* timeout is shorter than d.
C8_Original ==
  (wres = "true" /\ WaitCalledWhileWriting) => ~(hcfg.wait_timeout < HeldFor)

\* ===================================================== TrayApp and FileMonitor
\* Two threads call _reload_config: the one that runs the tray menu's callbacks
\* (reload, _toggle_project, _toggle_all_projects) and the one that runs
\* _check_config_reload. An observer thread is "idle" between events, "busy"
\* inside its handler, "stopbusy" inside its handler with its stop event set;
\* one that has terminated is no longer in `sessions`.
HandlerAtRest ==
  /\ hcfg = HandlerDefaults
  /\ hpc = "idle"
  /\ sleep_left = 0
  /\ last_copy_time = NoTime
  /\ elapsed = 0 /\ last_size = no_size /\ stable_count = 0 /\ wres = "none"
  /\ wait_at = [called |-> NoTime, returned |-> NoTime]
  /\ now = 0 /\ writer = NoWriter
  /\ attempt = 0 /\ retry_delay = initial_retry_delay
  /\ cres = "none" /\ opens = 0 /\ open_err = FALSE
  /\ source = [exists |-> TRUE, content |-> 0, mtime |-> 0, locked |-> FALSE]
  /\ target = Absent
  /\ queue = <<>>
  /\ polls = <<>> /\ outcomes = <<>> /\ sleeps = <<>>
  /\ handled = <<>>
  /\ emitted = 0

\* ConfigManager.get_enabled_mappings: the mappings of the enabled projects.
get_enabled_mappings(projects) == {m \in Maps : projects[ProjectOf[m]]}

Live(s) == s \in DOMAIN sessions /\ sessions[s].st \in {"idle", "busy"}

\* observer.stop(): an idle thread leaves its loop, one inside its handler
\* finishes the call first.
StopSignal_Ignored(st) == st
StopSignal(st) == IF st = "busy" THEN "stopbusy" ELSE IF st = "idle" THEN "dead" ELSE st

Running(ss) == {s \in DOMAIN ss : ss[s].st # "dead"}

\* A local variable coming into scope, and going out of it.
Bind(f, t, v) == [u \in DOMAIN f \cup {t} |-> IF u = t THEN v ELSE f[u]]
Unbind(f, t) == [u \in DOMAIN f \ {t} |-> f[u]]

\* A FileMonitor that neither TrayApp.file_monitor nor a running stop() refers
\* to is never read again: its lists are dropped with it.
Referenced(i, fm, tm) == i = fm \/ \E t \in DOMAIN tm : tm[t] = i
Collect(ms, fm, tm) ==
  [i \in DOMAIN ms |-> IF Referenced(i, fm, tm) THEN ms[i]
                        ELSE [mappings |-> {}, observers |-> {}, handlers |-> 0]]
Reap(ss) == [s \in Running(ss) |-> ss[s]]

\* The observers FileMonitor.start() creates: one per mapping whose source
\* directory exists, numbered from n + 1 in the order of the mapping list.
Watched_UntilMissing(mon) ==
  {m \in monitors[mon].mappings : \A k \in monitors[mon].mappings : k <= m => k \in dirs}
Watched(mon) == monitors[mon].mappings \cap dirs
NewIds(mon, n) == (n + 1)..(n + Cardinality(Watched(mon)))
MapOfNew(mon, n, s) ==
  CHOOSE m \in Watched(mon) : Cardinality({k \in Watched(mon) : k <= m}) = s - n
LastId ==
  IF DOMAIN sessions = {} THEN 0
  ELSE CHOOSE x \in DOMAIN sessions : \A y \in DOMAIN sessions : y <= x

\* ---- entering _reload_config
\* The tray menu's reload item.
MenuReload ==
  /\ tpc["menu"] = "idle"
  /\ reloads < MaxReloads
  /\ tpc' = [tpc EXCEPT !["menu"] = "stop"]
  /\ reloads' = reloads + 1
  /\ UNCHANGED <<handlerVars, cfgVars, watchVars, running, gui, requested, edits, disk, marker, dirs, cm, file_monitor, monitors, sessions,
                 tmon, tstopped, tenabled, applied>>

\* _check_config_reload, while self.running, finding the marker.
PollReload ==
  /\ tpc["poll"] = "idle"
  /\ running
  /\ marker
  /\ reloads < MaxReloads
  /\ tpc' = [tpc EXCEPT !["poll"] = "stop"]
  /\ reloads' = reloads + 1
  /\ UNCHANGED <<handlerVars, cfgVars, watchVars, running, gui, requested, edits, disk, marker, dirs, cm, file_monitor, monitors, sessions,
                 tmon, tstopped, tenabled, applied>>

\* _toggle_project: flip the flag, save_config, _reload_config.
ToggleProject(p) ==
  /\ tpc["menu"] = "idle"
  /\ reloads < MaxReloads
  /\ cm' = [cm EXCEPT ![p] = ~@]
  /\ disk' = [valid |-> TRUE, projects |-> cm']
  /\ requested' = [q \in {p} |-> cm'[q]]
  /\ tpc' = [tpc EXCEPT !["menu"] = "stop"]
  /\ reloads' = reloads + 1
  /\ UNCHANGED <<handlerVars, cfgVars, watchVars, running, gui, edits, marker, dirs, file_monitor, monitors, sessions,
                 tmon, tstopped, tenabled, applied>>

\* _toggle_all_projects: all off if all are on, else all on; save; reload.
ToggleAll ==
  /\ tpc["menu"] = "idle"
  /\ reloads < MaxReloads
  /\ cm' = [p \in Projects |-> ~(\A q \in Projects : cm[q])]
  /\ disk' = [valid |-> TRUE, projects |-> cm']
  /\ requested' = cm'
  /\ tpc' = [tpc EXCEPT !["menu"] = "stop"]
  /\ reloads' = reloads + 1
  /\ UNCHANGED <<handlerVars, cfgVars, watchVars, running, gui, edits, marker, dirs, file_monitor, monitors, sessions,
                 tmon, tstopped, tenabled, applied>>

\* ---- _reload_config, step by step
\* self.file_monitor.stop(), first loop: observer.stop() on each of self.observers.
StopObservers(t) ==
  /\ tpc[t] = "stop"
  /\ LET mon == file_monitor
         signalled == [s \in DOMAIN sessions |->
                         IF s \in monitors[mon].observers
                           THEN [sessions[s] EXCEPT !.st = StopSignal(@)]
                           ELSE sessions[s]]
     IN  /\ tmon' = Bind(tmon, t, mon)
         /\ sessions' = Reap(signalled)
         /\ tstopped' = [u \in Threads |->
                           IF u = t THEN monitors[mon].observers \cap Running(signalled)
                                    ELSE tstopped[u] \cap Running(signalled)]
         /\ monitors' = [i \in DOMAIN monitors |->
                           [monitors[i] EXCEPT !.observers = @ \cap Running(signalled)]]
  /\ tpc' = [tpc EXCEPT ![t] = "join"]
  /\ UNCHANGED <<handlerVars, cfgVars, watchVars, running, gui, requested, edits, disk, marker, dirs, cm, file_monitor, tenabled, applied, reloads>>

\* stop(), second loop and the rest: join(timeout=2) on each of self.observers,
\* which returns when the thread has ended or after 2 s, then clear both lists.
JoinObservers(t) ==
  /\ tpc[t] = "join"
  /\ tmon' = Unbind(tmon, t)
  /\ monitors' = Collect([monitors EXCEPT ![tmon[t]].observers = {}, ![tmon[t]].handlers = 0],
                         file_monitor, tmon')
  /\ tpc' = [tpc EXCEPT ![t] = "load"]
  /\ UNCHANGED <<handlerVars, cfgVars, watchVars, running, gui, requested, edits, disk, marker, dirs, cm, file_monitor, sessions,
                 tstopped, tenabled, applied, reloads>>

\* self.config_manager.load_config(): False when the file does not parse.
LoadConfig(t) ==
  /\ tpc[t] = "load"
  /\ IF disk.valid
       THEN /\ cm' = disk.projects
            /\ tpc' = [tpc EXCEPT ![t] = "create"]
            /\ UNCHANGED <<applied, tstopped>>
       ELSE /\ tpc' = [tpc EXCEPT ![t] = "idle"]
            /\ applied' = [ok |-> FALSE, enabled |-> {}]
            /\ tstopped' = [tstopped EXCEPT ![t] = {}]
            /\ UNCHANGED cm
  /\ requested' = IF t = "menu" /\ ~disk.valid THEN NoRequest ELSE requested
  /\ UNCHANGED <<handlerVars, cfgVars, watchVars, running, gui, edits, disk, marker, dirs, file_monitor, monitors, sessions,
                 tmon, tenabled, reloads>>

\* enabled_mappings = get_enabled_mappings(); when there are some,
\* self.file_monitor = FileMonitor(enabled_mappings, ...).
CreateMonitor(t) ==
  /\ tpc[t] = "create"
  /\ tenabled' = Bind(tenabled, t, get_enabled_mappings(cm))
  /\ IF get_enabled_mappings(cm) = {}
       THEN /\ tpc' = [tpc EXCEPT ![t] = "unlink"]
            /\ UNCHANGED <<monitors, file_monitor>>
       ELSE /\ file_monitor' = Len(monitors) + 1
            /\ monitors' = Collect(Append(monitors, [mappings |-> get_enabled_mappings(cm),
                                                     observers |-> {}, handlers |-> 0]),
                                   file_monitor', tmon)
            /\ tpc' = [tpc EXCEPT ![t] = "start"]
  /\ UNCHANGED <<handlerVars, cfgVars, watchVars, running, gui, requested, edits, disk, marker, dirs, cm, sessions, tmon, tstopped,
                 applied, reloads>>

\* self.file_monitor.start(): the field is read again, and that monitor started.
StartMonitor(t) ==
  /\ tpc[t] = "start"
  /\ LET mon == file_monitor
         n == LastId
     IN  /\ sessions' = [s \in DOMAIN sessions \cup NewIds(mon, n) |->
                           IF s \in DOMAIN sessions THEN sessions[s]
                           ELSE [mon |-> mon, map |-> MapOfNew(mon, n, s), st |-> "idle"]]
         /\ monitors' = [monitors EXCEPT ![mon].observers = @ \cup NewIds(mon, n),
                                          ![mon].handlers = @ + Cardinality(Watched(mon))]
  /\ tpc' = [tpc EXCEPT ![t] = "unlink"]
  /\ UNCHANGED <<handlerVars, cfgVars, watchVars, running, gui, requested, edits, disk, marker, dirs, cm, file_monitor, tmon, tstopped,
                 tenabled, applied, reloads>>

\* The marker is removed if it exists, and _reload_config returns.
UnlinkMarker(t) ==
  /\ tpc[t] = "unlink"
  /\ marker' = FALSE
  /\ applied' = [ok |-> TRUE, enabled |-> tenabled[t]]
  /\ tstopped' = [tstopped EXCEPT ![t] = {}]
  /\ tenabled' = Unbind(tenabled, t)
  /\ tpc' = [tpc EXCEPT ![t] = "idle"]
  /\ requested' = IF t = "menu" THEN NoRequest ELSE requested
  /\ UNCHANGED <<handlerVars, cfgVars, watchVars, running, gui, edits, disk, dirs, cm, file_monitor, monitors, sessions,
                 tmon, reloads>>

\* ---- the observer threads
\* An observer that has not been stopped dispatches an event to its handler.
Deliver(s) ==
  /\ s \in DOMAIN sessions
  /\ sessions[s].st = "idle"
  /\ sessions' = [sessions EXCEPT ![s].st = "busy"]
  /\ UNCHANGED <<handlerVars, cfgVars, watchVars, running, gui, requested, edits, disk, marker, dirs, cm, file_monitor, monitors,
                 tpc, tmon, tstopped, tenabled, applied, reloads>>

\* The handler returns (having copied or not); a stopped observer then ends.
HandlerReturns(s) ==
  /\ s \in DOMAIN sessions
  /\ sessions[s].st \in {"busy", "stopbusy"}
  /\ LET after == [sessions EXCEPT ![s].st = IF @ = "busy" THEN "idle" ELSE "dead"]
     IN  /\ sessions' = Reap(after)
         /\ tstopped' = [u \in Threads |-> tstopped[u] \cap Running(after)]
         /\ monitors' = [i \in DOMAIN monitors |->
                           [monitors[i] EXCEPT !.observers = @ \cap Running(after)]]
  /\ UNCHANGED <<handlerVars, cfgVars, watchVars, running, gui, requested, edits, disk, marker, dirs, cm, file_monitor,
                 tpc, tmon, tenabled, applied, reloads>>

\* ---- the configuration window and the user's editor
\* ConfigGUI.save_config: the flags chosen are saved and the marker touched.
GuiSave(flags) ==
  /\ edits < MaxEdits
  /\ edits' = edits + 1
  /\ disk' = [valid |-> TRUE, projects |-> flags]
  /\ marker' = TRUE
  /\ UNCHANGED <<handlerVars, cfgVars, watchVars, running, gui, requested, dirs, cm, file_monitor, monitors, sessions,
                 tpc, tmon, tstopped, tenabled, applied, reloads>>

\* config.json left unparseable by hand.
EditFile ==
  /\ edits < MaxEdits
  /\ edits' = edits + 1
  /\ disk.valid
  /\ disk' = [disk EXCEPT !.valid = FALSE]
  /\ UNCHANGED <<handlerVars, cfgVars, watchVars, running, gui, requested, marker, dirs, cm, file_monitor, monitors, sessions,
                 tpc, tmon, tstopped, tenabled, applied, reloads>>

\* main(): the configuration loaded, every project enabled, and a FileMonitor
\* over the enabled mappings started.
Init ==
  /\ HandlerAtRest
  /\ ConfigAtRest
  /\ WatchersAtRest
  /\ \E flags \in {[p \in Projects |-> TRUE]} :
       /\ disk = [valid |-> TRUE, projects |-> flags]
       /\ cm = flags
       /\ \E d \in {Maps, {1}, {2}} :
            /\ dirs = d
            /\ monitors = <<[mappings |-> get_enabled_mappings(flags),
                             observers |-> 1..Cardinality(get_enabled_mappings(flags) \cap d),
                             handlers |-> Cardinality(get_enabled_mappings(flags) \cap d)]>>
            /\ sessions = [s \in 1..Cardinality(get_enabled_mappings(flags) \cap d) |->
                             [mon |-> 1,
                              map |-> CHOOSE m \in get_enabled_mappings(flags) \cap d :
                                        Cardinality({k \in get_enabled_mappings(flags) \cap d : k <= m}) = s,
                              st |-> "idle"]]
       /\ applied = [ok |-> TRUE, enabled |-> get_enabled_mappings(flags)]
  /\ marker = FALSE
  /\ file_monitor = 1
  /\ tpc = [t \in Threads |-> "idle"]
  /\ tmon = [t \in {} |-> 1]
  /\ tstopped = [t \in Threads |-> {}]
  /\ tenabled = [t \in {} |-> {}]
  /\ reloads = 0
  /\ edits = 0
  /\ requested = NoRequest
  /\ running = TRUE
  /\ gui = GuiClosed

Next ==
  \/ MenuReload
  \/ PollReload
  \/ \E p \in Projects : ToggleProject(p)
  \/ ToggleAll
  \/ \E t \in Threads : StopObservers(t)
  \/ \E t \in Threads : JoinObservers(t)
  \/ \E t \in Threads : LoadConfig(t)
  \/ \E t \in Threads : CreateMonitor(t)
  \/ \E t \in Threads : StartMonitor(t)
  \/ \E t \in Threads : UnlinkMarker(t)
  \/ \E s \in DOMAIN sessions : Deliver(s)
  \/ \E s \in DOMAIN sessions : HandlerReturns(s)
  \/ \E flags \in [Projects -> BOOLEAN] : GuiSave(flags)
  \/ EditFile

Spec == Init /\ [][Next]_vars

AllIdle == \A t \in Threads : tpc[t] = "idle"
LiveOn(m) == {s \in DOMAIN sessions : Live(s) /\ sessions[s].map = m}

\* ---------------------------------------------------------------- C1
\* C1 (as claimed): once _reload_config has returned, having loaded the
\* configuration, the live watchers are exactly the enabled mappings of that
\* configuration (those whose source directory exists), all of them observers
\* of TrayApp's current FileMonitor: no watcher of the prior one is active.
C1_ReloadAtomic ==
  (AllIdle /\ applied.ok) =>
    /\ \A m \in Maps : (LiveOn(m) # {}) <=> (m \in applied.enabled \cap dirs)
    /\ \A s \in DOMAIN sessions : Live(s) => sessions[s].mon = file_monitor

\* ---------------------------------------------------------------- C2
\* C2 (as claimed): in every reachable state no mapping is watched by two live
\* sessions.
C2_OneSessionPerMapping == \A m \in Maps : Cardinality(LiveOn(m)) <= 1

\* ---------------------------------------------------------------- C3
\* What stop() leaves running: only handlers finishing their call.
C3_StoppedBeforeStart ==
  \A t \in Threads : tpc[t] \in {"load", "create", "start", "unlink"} =>
    \A s \in tstopped[t] : s \in DOMAIN sessions /\ sessions[s].st = "stopbusy"

\* An observer whose stop event is set only ends.
C3_NoFurtherDispatch ==
  \A s \in DOMAIN sessions : sessions[s].st = "stopbusy" =>
    (s \in DOMAIN sessions' => sessions'[s].st = "stopbusy")

C4_NoCopyForDisabled ==
  [][(AllIdle /\ applied.ok) =>
       \A s \in DOMAIN sessions :
         (sessions[s].st = "idle" /\ s \in DOMAIN sessions' /\ sessions'[s].st = "busy")
           => sessions[s].map \in applied.enabled]_vars

InHandler(m) ==
  {s \in DOMAIN sessions : sessions[s].map = m /\ sessions[s].st \in {"busy", "stopbusy"}}

\* C12 (as claimed): at no time are two handler calls (stability wait, copy
\* attempts) for the same mapping in progress, a reload that restarts the
\* mapping's watcher included.
C12_OneHandlerPerMapping == \A m \in Maps : Cardinality(InHandler(m)) <= 1

\* ---------------------------------------------------------------- C13
\* The last event that passed the filter ended without a copy: the wait timed
\* out, the retries were exhausted or mkdir raised.
LastEventFailed == handled # <<>> /\ hpc = "idle" /\ ~Last(handled).ok

\* C13 (as claimed): after an event abandoned on a timeout or a failed copy the
\* watcher is back at its queue, and the next notification for the source file,
\* the file present and readable, is processed.
C13_LaterEventProcessed ==
  [][(/\ LastEventFailed
      /\ queue # <<>> /\ Head(queue) = "src"
      /\ source.exists
      /\ Dispatch(FALSE))
       => (hpc' # "idle" /\ Len(handled') = Len(handled) + 1)]_vars


\* ===================================================== ConfigManager and main
\* config.json as ConfigManager reads it. An entry of 'mappings' is written as
\* the project name _extract_project_name derives from its two paths, or as
\* what validate_config finds wrong with it. A value of 'projects' is a dict
\* with an 'enabled' flag, or something that is no dict.
Unclassified == "unclassified"
ProjectNames == {"A", "B", Unclassified}
BadEntries == {"notdict", "nosource", "notarget"}
Entries == ProjectNames \cup BadEntries

MaxMappings == 2
MaxLoads == 2
MaxCfgEdits == 1

NoProjects == [n \in {} |-> TRUE]
ProjectValue(isdict, enabled) ==
  [dict |-> isdict, enabled |-> enabled, mapping_indices |-> <<>>]
ProjectValues ==
  {ProjectValue(TRUE, TRUE), ProjectValue(TRUE, FALSE), ProjectValue(FALSE, TRUE)}
ProjectMaps == UNION {[D -> ProjectValues] : D \in SUBSET ProjectNames}
MappingLists == UNION {[1..n -> Entries] : n \in 0..MaxMappings}
Files ==
  {[parses |-> FALSE, islist |-> TRUE, mappings |-> <<>>, projects |-> NoProjects]}
  \cup {[parses |-> TRUE, islist |-> FALSE, mappings |-> <<>>, projects |-> pm] :
          pm \in ProjectMaps}
  \cup {[parses |-> TRUE, islist |-> TRUE, mappings |-> ms, projects |-> pm] :
          ms \in MappingLists, pm \in ProjectMaps}

\* ConfigManager.validate_config: 'mappings' is a list of dicts that each have
\* 'source_file' and 'target_dir'.
validate_config_ListOnly(c) == c.islist
validate_config(c) ==
  /\ c.islist
  /\ \A i \in 1..Len(c.mappings) : c.mappings[i] \notin BadEntries

\* The try block of _identify_projects raises when the name is not yet
\* identified, is a key of the persisted map, and its value there has no get().
Raises(acc, prev, name) ==
  /\ name \notin DOMAIN acc
  /\ name \in DOMAIN prev
  /\ ~prev[name].dict

Carried(prev, name) == IF name \in DOMAIN prev THEN prev[name].enabled ELSE TRUE

WithProject(acc, name, enabled) ==
  IF name \in DOMAIN acc
    THEN acc
    ELSE [n \in DOMAIN acc \cup {name} |->
            IF n = name THEN ProjectValue(TRUE, enabled) ELSE acc[n]]

AppendIndex(acc, name, i) == [acc EXCEPT ![name].mapping_indices = Append(@, i)]

\* One iteration of the loop of _identify_projects, for the mapping at index i
\* (counted from 0) whose derived name is `name`.
IdentifyOne_DropOnError(acc, prev, name, i) ==
  IF Raises(acc, prev, name)
    THEN acc
    ELSE AppendIndex(WithProject(acc, name, Carried(prev, name)), name, i)
IdentifyOne(acc, prev, name, i) ==
  IF Raises(acc, prev, name)
    THEN AppendIndex(WithProject(acc, Unclassified, TRUE), Unclassified, i)
    ELSE AppendIndex(WithProject(acc, name, Carried(prev, name)), name, i)

RECURSIVE IdentifyFrom(_, _, _, _)
IdentifyFrom(ms, prev, k, acc) ==
  IF k > Len(ms)
    THEN acc
    ELSE IdentifyFrom(ms, prev, k + 1, IdentifyOne(acc, prev, ms[k], k - 1))

identify_projects(ms, prev) == IdentifyFrom(ms, prev, 1, NoProjects)

\* ConfigManager.load_config: what it returns and what it leaves in the
\* manager's fields.
load_config(c, cmg) ==
  IF ~c.parses
    THEN [ok |-> FALSE, cm |-> cmg]
    ELSE IF ~validate_config(c)
      THEN [ok |-> FALSE,
            cm |-> [islist |-> c.islist, mappings |-> c.mappings, projects |-> c.projects]]
      ELSE [ok |-> TRUE,
            cm |-> [islist |-> TRUE, mappings |-> c.mappings,
                    projects |-> identify_projects(c.mappings, c.projects)]]

\* ConfigManager.get_enabled_mappings, as indices into the mapping list.
EnabledIndices(cmg) ==
  {i \in 0..(Len(cmg.mappings) - 1) :
     \E n \in DOMAIN cmg.projects :
       /\ cmg.projects[n].enabled
       /\ \E k \in 1..Len(cmg.projects[n].mapping_indices) :
            cmg.projects[n].mapping_indices[k] = i}

Loaded(r) ==
  /\ cmgr' = r.cm
  /\ loadres' = IF r.ok THEN "ok" ELSE "failed"
  /\ previous' = IF cfile.parses THEN cfile.projects ELSE previous
  /\ nloads' = nloads + 1

\* main(), up to the creation of the tray.
Main ==
  /\ startup.returned = "no" /\ ~startup.file_monitor
  /\ LET r == load_config(cfile, cmgr) IN
       /\ Loaded(r)
       /\ startup' = IF ~r.ok \/ r.cm.mappings = <<>> \/ EnabledIndices(r.cm) = {}
                       THEN [returned |-> "1", file_monitor |-> FALSE]
                       ELSE [returned |-> "no", file_monitor |-> TRUE]
  /\ UNCHANGED <<handlerVars, supVars, watchVars, naming, cfile, nedits>>

\* The load_config of a _reload_config.
Reload ==
  /\ startup.file_monitor
  /\ nloads < MaxLoads
  /\ Loaded(load_config(cfile, cmgr))
  /\ UNCHANGED <<handlerVars, supVars, watchVars, naming, cfile, startup, nedits>>

\* ConfigManager.set_project_enabled, from a tray callback.
set_project_enabled(name, enabled) ==
  /\ startup.file_monitor
  /\ name \in DOMAIN cmgr.projects
  /\ cmgr.projects[name].dict
  /\ cmgr' = [cmgr EXCEPT !.projects[name].enabled = enabled]
  /\ UNCHANGED <<handlerVars, supVars, watchVars, naming, cfile, previous, loadres, startup, nloads, nedits>>

\* ConfigManager.save_config.
save_config ==
  /\ startup.file_monitor
  /\ cfile' = [parses |-> TRUE, islist |-> cmgr.islist, mappings |-> cmgr.mappings,
               projects |-> cmgr.projects]
  /\ UNCHANGED <<handlerVars, supVars, watchVars, naming, cmgr, previous, loadres, startup, nloads, nedits>>

\* config.json edited by hand while the tray runs: one value of 'projects' is
\* set or removed.
EditProjects ==
  /\ startup.file_monitor
  /\ cfile.parses
  /\ nedits < MaxCfgEdits
  /\ nedits' = nedits + 1
  /\ \E pm \in ProjectMaps :
       /\ \E n \in ProjectNames :
            \A o \in ProjectNames \ {n} :
              /\ (o \in DOMAIN pm) = (o \in DOMAIN cfile.projects)
              /\ o \in DOMAIN pm => pm[o].dict = cfile.projects[o].dict
              /\ o \in DOMAIN pm => pm[o].enabled = cfile.projects[o].enabled
       /\ cfile' = [cfile EXCEPT !.projects = pm]
  /\ UNCHANGED <<handlerVars, supVars, watchVars, naming, cmgr, previous, loadres, startup, nloads>>

InitConfig ==
  /\ HandlerAtRest
  /\ SupervisorAtRest
  /\ WatchersAtRest
  /\ cfile \in Files
  /\ cmgr = [islist |-> TRUE, mappings |-> <<>>, projects |-> NoProjects]
  /\ previous = NoProjects
  /\ loadres = "none"
  /\ startup = [returned |-> "no", file_monitor |-> FALSE]
  /\ nloads = 0
  /\ nedits = 0
  /\ naming = NoNaming

NextConfig ==
  \/ Main
  \/ Reload
  \/ \E n \in ProjectNames, b \in BOOLEAN : set_project_enabled(n, b)
  \/ save_config
  \/ EditProjects

SpecConfig == InitConfig /\ [][NextConfig]_vars

\* The indices a project lists, and how often an index is listed over all
\* projects.
Listed(projects, i) ==
  {<<n, k>> \in (DOMAIN projects) \X (1..(MaxMappings + 1)) :
     /\ k <= Len(projects[n].mapping_indices)
     /\ projects[n].mapping_indices[k] = i}
IndicesOf(projects, n) ==
  IF n \in DOMAIN projects
    THEN {projects[n].mapping_indices[k] : k \in 1..Len(projects[n].mapping_indices)}
    ELSE {}
RaisedAt(k) == cmgr.mappings[k] \in DOMAIN previous /\ ~previous[cmgr.mappings[k]].dict

\* C14: after a successful load_config every index of the mapping list is
\* listed exactly once over all projects and no other index is listed; a
\* mapping whose name derivation raised is listed by the unclassified project
\* and every other mapping by the project its paths name.
C14_ProjectsPartitionMappings ==
  loadres = "ok" =>
    /\ \A i \in 0..(Len(cmgr.mappings) - 1) : Cardinality(Listed(cmgr.projects, i)) = 1
    /\ \A n \in DOMAIN cmgr.projects :
         /\ IndicesOf(cmgr.projects, n) \subseteq 0..(Len(cmgr.mappings) - 1)
         /\ IndicesOf(cmgr.projects, n) # {}
    /\ \A k \in 1..Len(cmgr.mappings) :
         IF RaisedAt(k)
           THEN (k - 1) \in IndicesOf(cmgr.projects, Unclassified)
           ELSE (k - 1) \in IndicesOf(cmgr.projects, cmgr.mappings[k])

C14_Witness ==
  /\ loadres = "ok"
  /\ Len(cmgr.mappings) = 2
  /\ RaisedAt(1) /\ ~RaisedAt(2)
  /\ cmgr.mappings[2] = "B"
  /\ DOMAIN cmgr.projects = {Unclassified, "B"}

\* The enabled flag the persisted map gives a name, where it gives one.
Persisted(n) == n \in DOMAIN cfile.projects /\ cfile.projects[n].dict
KeptFlag(n) ==
  cmgr'.projects[n].enabled = IF Persisted(n) THEN cfile.projects[n].enabled ELSE TRUE
SuccessfulLoad == nloads' # nloads /\ loadres' = "ok"

\* C15: after every successful load_config, each project of the result is
\* enabled as the persisted map read by that load had it, and enabled when
\* the persisted map did not have it; for every project, the unclassified one
\* included.
C15_EnabledCarriedOver ==
  [][SuccessfulLoad =>
       \A n \in DOMAIN cmgr'.projects :
         (n \in DOMAIN cfile.projects => cfile.projects[n].dict) => KeptFlag(n)]_vars

\* The same for the projects other than the unclassified one.
NamedProjectsCarriedOver ==
  [][SuccessfulLoad => \A n \in DOMAIN cmgr'.projects \ {Unclassified} : KeptFlag(n)]_vars

\* ---------------------------------------------------------------- C16
Started(t) == tpc[t] = "start" /\ tpc'[t] = "unlink"
Created == DOMAIN sessions' \ DOMAIN sessions

\* C16: a call of FileMonitor.start creates, for each mapping of the monitor
\* whose source directory exists, exactly one session (an observer thread and
\* a handler) and none for a mapping whose directory is missing, in the order
\* of the mapping list; a skipped mapping does not keep a later one from
\* getting its session.
C16_OneSessionPerExistingDir ==
  [][\A t \in Threads : Started(t) =>
       /\ \A m \in Maps :
            Cardinality({s \in Created : sessions'[s].map = m}) =
              IF m \in monitors[file_monitor].mappings /\ m \in dirs THEN 1 ELSE 0
       /\ \A s \in Created :
            /\ sessions'[s] = [mon |-> file_monitor, map |-> sessions'[s].map, st |-> "idle"]
            /\ s \in monitors'[file_monitor].observers
            /\ \A r \in Created : r < s => sessions'[r].map < sessions'[s].map
       /\ monitors'[file_monitor].handlers =
            monitors[file_monitor].handlers + Cardinality(Created)
       /\ \A s \in DOMAIN sessions : sessions'[s] = sessions[s]]_vars

C16_Witness ==
  /\ dirs = {2}
  /\ reloads > 0
  /\ \E t \in Threads : tpc[t] = "unlink" /\ tenabled[t] = Maps
  /\ monitors[file_monitor].mappings = Maps
  /\ monitors[file_monitor].handlers = 1
  /\ \E s \in monitors[file_monitor].observers :
       /\ monitors[file_monitor].observers = {s}
       /\ sessions[s] = [mon |-> file_monitor, map |-> 2, st |-> "idle"]

\* ---------------------------------------------------------------- C17
StopReturns(t) == tpc[t] = "join" /\ tpc'[t] = "load"
StopBegins(t) == tpc[t] = "stop" /\ tpc'[t] = "join"
TornDown(mon) ==
  /\ monitors'[mon].observers = {}
  /\ monitors'[mon].handlers = 0
  /\ \A s \in DOMAIN sessions' : sessions'[s].mon = mon => sessions'[s].st = "stopbusy"
NothingToStop(mon) ==
  /\ monitors[mon].observers = {}
  /\ monitors[mon].handlers = 0

\* C17: when FileMonitor.stop returns, the monitor's observers and handlers
\* lists are empty and every observer thread of the monitor has been asked to
\* stop; a stop of a monitor whose lists are empty (stopped before, or never
\* started) changes neither the monitor nor any session.
C17_StopTearsDownAll ==
  [][\A t \in Threads :
       /\ StopReturns(t) => TornDown(tmon[t])
       /\ (StopBegins(t) /\ NothingToStop(file_monitor)) =>
            (sessions' = sessions /\ monitors' = monitors)
       /\ (StopReturns(t) /\ NothingToStop(tmon[t])) => sessions' = sessions]_vars

\* ---------------------------------------------------------------- C18
\* The two threads keep running: the loop of _check_config_reload looks for
\* the marker every 2 s, and a thread inside _reload_config goes on to its
\* next statement. Nothing makes the user pick a menu item.
ThreadStep(t) ==
  \/ StopObservers(t)
  \/ JoinObservers(t)
  \/ LoadConfig(t)
  \/ CreateMonitor(t)
  \/ StartMonitor(t)
  \/ UnlinkMarker(t)
Fairness == WF_vars(PollReload) /\ \A t \in Threads : WF_vars(ThreadStep(t))
SpecLive == Init /\ [][Next]_vars /\ Fairness

\* The configuration window's save is in the file, the marker is there, and
\* the manager's flags are not yet those of the file.
SavedAndSignalled ==
  /\ marker
  /\ disk.valid
  /\ cm # disk.projects
  /\ reloads < MaxReloads

\* C18: once a configuration has been saved and the marker created, a reload
\* eventually reads that configuration, also when the marker was created
\* during a reload that then removes it.
C18_SavedConfigEventuallyRead == SavedAndSignalled ~> (cm = disk.projects)

\* ---------------------------------------------------------------- C19
ConfigError(c) ==
  /\ c.parses
  /\ \/ ~c.islist
     \/ \E i \in 1..Len(c.mappings) : c.mappings[i] \in BadEntries
LoadCalled == nloads' # nloads
AtStartup == startup.returned = "no" /\ ~startup.file_monitor

\* C19: a load_config of a file whose 'mappings' is not a list, or has an
\* entry that is not a dict or lacks source_file or target_dir, returns false;
\* when that load is the one of main(), main returns 1 and has created no
\* FileMonitor.
C19_ConfigErrorStopsStartup ==
  [][(LoadCalled /\ ConfigError(cfile)) =>
       /\ loadres' = "failed"
       /\ AtStartup => startup' = [returned |-> "1", file_monitor |-> FALSE]]_vars

C19_Witness ==
  /\ startup = [returned |-> "1", file_monitor |-> FALSE]
  /\ loadres = "failed"
  /\ nloads = 1
  /\ cfile.parses /\ cfile.islist
  /\ Len(cfile.mappings) = 2
  /\ cfile.mappings[1] \in ProjectNames
  /\ cfile.mappings[2] = "notarget"

\* ---------------------------------------------------------------- C20
ToggleCompletes == tpc["menu"] = "unlink" /\ tpc'["menu"] = "idle" /\ DOMAIN requested # {}
WatchedAfter(m) ==
  \E s \in DOMAIN sessions' : sessions'[s].map = m /\ sessions'[s].st \in {"idle", "busy"}

\* C20: when _toggle_project or _toggle_all_projects has set the flags, saved
\* and come back from a _reload_config that loaded the file, each project it
\* set has the requested flag in the manager and in config.json, and each of
\* its mappings whose source directory exists is watched exactly when the
\* project was enabled.
C20_ToggleTakesEffect ==
  [][ToggleCompletes =>
       \A p \in DOMAIN requested :
         /\ cm'[p] = requested[p]
         /\ disk'.projects[p] = requested[p]
         /\ \A m \in Maps :
              (ProjectOf[m] = p /\ m \in dirs) => (WatchedAfter(m) = requested[p])]_vars

\* ---------------------------------------------------------------- C21
\* The handler thread takes the next notification off the queue.
Dispatched == hpc = "idle" /\ queue # <<>> /\ queue' = Tail(queue)

\* C21: a notification for a path other than the source path, or one that
\* finds the file gone, leaves the recorded timestamp as it was, starts no
\* wait and no copy, and leaves the target alone.
C21_IgnoredChangesNothing ==
  [][(Dispatched /\ (Head(queue) # "src" \/ ~source.exists)) =>
       /\ last_copy_time' = last_copy_time
       /\ hpc' = "idle"
       /\ handled' = handled
       /\ UNCHANGED <<waitVars, copyVars, fsVars, polls, copyHist>>]_vars

C21_Witness ==
  /\ emitted = 2 /\ queue = <<>> /\ hpc = "idle"
  /\ Len(handled) = 1 /\ handled[1].ok
  /\ last_copy_time = handled[1].mtime
  /\ ~source.exists
  /\ target # Absent

\* ---------------------------------------------------------------- C22
Apart(a, b) == IF a >= b THEN a - b ELSE b - a
WithinWindow == last_copy_time # NoTime /\ Apart(source.mtime, last_copy_time) < debounce_window
Discarded == last_copy_time' = last_copy_time /\ hpc' = "idle" /\ handled' = handled
Proceeds ==
  /\ last_copy_time' = source.mtime
  /\ hpc' \in {"wait", "mkdir"}
  /\ Len(handled') = Len(handled) + 1

\* C22: a notification for the existing source file whose stat succeeds is
\* discarded exactly when a timestamp is recorded and the file's modification
\* time is less than 1 s away from it, earlier or later; otherwise the new
\* timestamp is recorded and the event goes on to the wait or the copy.
C22_DebounceEitherDirection ==
  [][(queue # <<>> /\ Head(queue) = "src" /\ source.exists /\ Dispatch(FALSE)) =>
       IF WithinWindow THEN Discarded ELSE Proceeds]_vars

\* ---------------------------------------------------------------- C23
CopyEntered == hpc # "mkdir" /\ hpc' = "mkdir"
WaitFailed == hpc = "waited" /\ wres = "false" /\ hpc' # "waited"

\* C23: with wait_for_complete set, _copy_file is entered only from a
\* _wait_for_file_ready of the same event that returned true; when the wait
\* returned false the handler goes back to idle with no copy attempt made for
\* the event and the target as it was.
C23_CopyOnlyAfterReady ==
  /\ [](hcfg.wait_for_complete /\ hpc \in {"mkdir", "attempt"} =>
          /\ wres = "true"
          /\ wait_at.returned # NoTime)
  /\ [][hcfg.wait_for_complete =>
          /\ CopyEntered => (hpc = "waited" /\ wres = "true")
          /\ WaitFailed =>
               /\ hpc' = "idle"
               /\ ~Last(handled).copy /\ handled' = handled
               /\ UNCHANGED <<copyVars, fsVars, copyHist>>]_vars

C23_Witness ==
  /\ hcfg.wait_for_complete
  /\ wres = "false" /\ hpc = "idle"
  /\ wait_at.returned # NoTime
  /\ Len(handled) = 1 /\ ~handled[1].copy
  /\ target = Absent

\* ---------------------------------------------------------------- C24
Failed(o) == o.kind \in {"missing", "staterr"}

\* C24: a poll that finds the file missing or gets a stat error leaves the
\* wait running with the streak counter at zero, and True is returned only
\* when at least three size samples have followed the last such poll.
C24_FailedPollResetsStreak ==
  /\ (polls # <<>> /\ Failed(Last(polls))) =>
       /\ wres # "true"
       /\ hpc = "poll" => stable_count = 0
  /\ wres = "true" =>
       \A j \in 1..Len(polls) : Failed(polls[j]) => j + stable_check_count <= Len(polls)

\* The same for stat errors alone.
StatErrorResetsStreak ==
  /\ (polls # <<>> /\ Last(polls).kind = "staterr") =>
       /\ wres # "true"
       /\ hpc = "poll" => stable_count = 0
  /\ wres = "true" =>
       \A j \in 1..Len(polls) :
         polls[j].kind = "staterr" =>
           Len(SelectSeq(SubSeq(polls, j + 1, Len(polls)), LAMBDA o : o.kind = "size"))
             >= stable_check_count

\* ---------------------------------------------------------------- C25
\* C25: the delay slept after an attempt that failed with an error other than
\* a permission error is 0.5 s whatever the earlier attempts raised, and when
\* five attempts have failed the failure is logged.
C25_OtherErrorsFixedDelay ==
  /\ \A i \in 1..Len(sleeps) :
       outcomes[i] \notin PermErrors => sleeps[i] = initial_retry_delay
  /\ (Len(outcomes) = max_retries /\ Last(outcomes) # "ok") => cres = "fail"

\* The same for the attempts that no permission error came before.
FixedDelayBeforePermissionError ==
  \A i \in 1..Len(sleeps) :
    (\A j \in 1..i : outcomes[j] \notin PermErrors) => sleeps[i] = initial_retry_delay

\* ---------------------------------------------------------------- C26
\* C26: _open_directory is called once by a _copy_file that copied and has
\* open_dir set, and not at all otherwise; when os.startfile raises inside it
\* the copy still counts as done, the target holds the copy, and no attempt
\* follows the successful one.
C26_OpenOncePerSuccess ==
  /\ opens = IF cres = "ok" /\ hcfg.open_dir THEN 1 ELSE 0
  /\ open_err =>
       /\ cres = "ok" /\ hpc = "idle" /\ sleep_left = 0
       /\ Last(outcomes) = "ok"
       /\ target = [exists |-> TRUE, content |-> source.content, mtime |-> source.mtime]
  /\ \A i \in 1..(Len(outcomes) - 1) : outcomes[i] # "ok"

C26_Witness ==
  /\ hcfg.open_dir /\ open_err
  /\ cres = "ok" /\ opens = 1
  /\ outcomes = <<"other_copy", "ok">>

\* ===================================================== _extract_project_name
\* A path is the tuple Path.parts gives for a resolved path: the anchor (drive
\* or root), the directories, and for the source the file name. The segments
\* are taken from a few names: with a digit, longer than 10 characters, or
\* neither.
MaxDepth == 2

Anchors == {"C:", "D:"}
DirNames == {"src", "p1", "averylongfoldername"}
FileNames == {"a", "f1"}
HasDigit(part) == part \in {"p1", "f1"}
LongerThan10(part) == part \in {"averylongfoldername"}

\* The literal returned when the parent directory has no name.
Unknown == "unknown"

DirLists == UNION {[1..n -> DirNames] : n \in 0..MaxDepth}
SourcePaths == {<<a>> \o d \o <<f>> : a \in Anchors, d \in DirLists, f \in FileNames}
TargetPaths == {<<a>> \o d : a \in Anchors, d \in DirLists}

\* if any(char.isdigit() for char in part) or len(part) > 10
Qualifies_DigitOnly(part) == HasDigit(part)
Qualifies(part) == HasDigit(part) \/ LongerThan10(part)

\* The first loop: the segments the two paths share from the root on.
RECURSIVE CommonFrom(_, _, _)
CommonFrom(s, t, i) ==
  IF i > Len(s) \/ i > Len(t) THEN <<>>
  ELSE IF s[i] = t[i] THEN <<s[i]>> \o CommonFrom(s, t, i + 1)
  ELSE <<>>

\* for part in reversed(parts): the first that qualifies, "" when the loop
\* ends without returning.
RECURSIVE FirstQualifyingFrom(_, _)
FirstQualifyingFrom(parts, i) ==
  IF i = 0 THEN ""
  ELSE IF Qualifies(parts[i]) THEN parts[i]
  ELSE FirstQualifyingFrom(parts, i - 1)

\* source_path.parent.name: the anchor has no name.
ParentName(s) == IF Len(s) >= 3 THEN s[Len(s) - 1] ELSE ""

extract_project_name(s, t) ==
  LET common_parts == CommonFrom(s, t, 1) IN
    IF Len(common_parts) > 0
      THEN IF FirstQualifyingFrom(common_parts, Len(common_parts)) # ""
             THEN FirstQualifyingFrom(common_parts, Len(common_parts))
             ELSE common_parts[Len(common_parts)]
      ELSE IF FirstQualifyingFrom(s, Len(s)) # ""
             THEN FirstQualifyingFrom(s, Len(s))
             ELSE IF ParentName(s) # "" THEN ParentName(s) ELSE Unknown

\* The name of one mapping derived.
ExtractName ==
  /\ naming.name = "none"
  /\ naming' = [naming EXCEPT !.name = extract_project_name(naming.source, naming.target)]
  /\ UNCHANGED <<handlerVars, supVars, watchVars, cfile, cmgr, previous, loadres, startup, nloads, nedits>>

InitNaming ==
  /\ HandlerAtRest
  /\ SupervisorAtRest
  /\ WatchersAtRest
  /\ cfile = [parses |-> TRUE, islist |-> TRUE, mappings |-> <<>>, projects |-> <<>>]
  /\ cmgr = [islist |-> TRUE, mappings |-> <<>>, projects |-> <<>>]
  /\ previous = <<>>
  /\ loadres = "none"
  /\ startup = [returned |-> "no", file_monitor |-> FALSE]
  /\ nloads = 0
  /\ nedits = 0
  /\ \E s \in SourcePaths, t \in TargetPaths :
       naming = [source |-> s, target |-> t, name |-> "none"]

NextNaming == ExtractName

SpecNaming == InitNaming /\ [][NextNaming]_vars

\* ---------------------------------------------------------------- C27
\* Stated on the two tuples: k segments are shared from the root on; the
\* segments scanned are those k, or all of the source's when k = 0.
SharedLength(s, t) ==
  CHOOSE k \in 0..Len(s) :
    /\ k <= Len(t)
    /\ \A i \in 1..k : s[i] = t[i]
    /\ k = Len(s) \/ k = Len(t) \/ s[k + 1] # t[k + 1]
Scanned(s, t) == IF SharedLength(s, t) > 0 THEN SubSeq(s, 1, SharedLength(s, t)) ELSE s
Likely(q) == {i \in 1..Len(q) : HasDigit(q[i]) \/ LongerThan10(q[i])}
Deepest(I) == CHOOSE i \in I : \A j \in I : j <= i
NameFor(s, t, sentinel) ==
  IF Likely(Scanned(s, t)) # {} THEN Scanned(s, t)[Deepest(Likely(Scanned(s, t)))]
  ELSE IF SharedLength(s, t) > 0 THEN s[SharedLength(s, t)]
  ELSE IF Len(s) >= 3 THEN s[Len(s) - 1]
  ELSE sentinel

\* C27 (as amended): the name derived is the deepest shared segment with a
\* digit or more than 10 characters, else the deepest shared segment; with no
\* shared segment the deepest segment of the source path with a digit or more
\* than 10 characters, else the name of the source file's parent directory,
\* else the literal of l.232, which is not the name of the unclassified
\* bucket.
C27_NameDerived ==
  /\ naming.name # "none" =>
       naming.name = NameFor(naming.source, naming.target, Unknown)
  /\ Unknown # Unclassified

C27_Witness ==
  /\ naming.name = Unknown
  /\ naming.source = <<"C:", "a">>
  /\ naming.target[1] = "D:"

\* C27 (as claimed): the last resort is the unclassified sentinel.
C27_Original ==
  naming.name # "none" =>
    naming.name = NameFor(naming.source, naming.target, Unclassified)


\* ---------------------------------------------------------------------------
\* C28: the background loop's reload leaves the marker cleared, whatever the
\* reload's outcome.
\* ---------------------------------------------------------------------------
\* The _reload_config call made by _check_config_reload returns.
PollReloadReturns == tpc["poll"] # "idle" /\ tpc'["poll"] = "idle"

\* C28: every time the reload invoked by the background loop returns (the
\* load failed, no mapping is enabled, or the watchers were restarted), the
\* marker is absent, so that the next 2-second poll does not reload again.
C28_MarkerClearedAfterReload == [][PollReloadReturns => ~marker']_vars

\* The part that holds: a reload whose load succeeded leaves the marker absent.
MarkerClearedAfterLoadedReload ==
  [][(PollReloadReturns /\ tpc["poll"] = "unlink") => ~marker']_vars

\* ===================================================== mappings and their watchers
\* The mapping dicts of ConfigManager, the FileMonitor built over them and the
\* FileSyncHandler of each mapping, with one supervisor thread reloading. A
\* mapping dict is an object: ConfigManager.mappings and FileMonitor.mappings
\* hold references to it, and validate_config changes it in place.
SourceFiles == {"S1", "S2"}
TargetDirs == {"T1", "T2", "./T1"}

MaxStarts == 2
MaxFileEdits == 1
MaxTouches == 1

\* Path.resolve(): a relative path made absolute.
Resolve(p) == IF p = "./T1" THEN "T1" ELSE p

RawMapping(s, t, o) == [source_file |-> s, target_dir |-> t, open_dir |-> o]

\* config.json as the configuration window or an editor may leave it: two
\* mappings, the second of which may watch the source file of the first.
MappingFiles ==
  {[mappings |-> <<RawMapping("S1", t, FALSE), RawMapping(s, "T2", TRUE)>>,
    projects |-> [p \in Projects |-> TRUE]] :
     t \in {"./T1", "T2"}, s \in SourceFiles}


\* validate_config, for one mapping dict: the paths resolved and the fixed
\* defaults written into the dict.
validate_mapping(d) ==
  [d EXCEPT !.source_file = Resolve(@), !.target_dir = Resolve(@), !.open_dir = TRUE]

\* Objects no list refers to any more are gone.
Kept(ds, refs1, refs2) ==
  [d \in {x \in DOMAIN ds : \/ \E m \in DOMAIN refs1 : refs1[m] = x
                            \/ \E m \in DOMAIN refs2 : refs2[m] = x} |-> ds[d]]

\* ConfigManager.get_enabled_mappings: the dicts of the enabled projects'
\* mappings, by their index in the list.
EnabledRefs(refs, flags) == [m \in {k \in DOMAIN refs : flags[ProjectOf[k]]} |-> refs[m]]

\* FileSyncHandler.__init__ called by FileMonitor.start() with the values read
\* from the mapping dict d: the handler's own fields.
NewHandler(m, d) ==
  [mapping |-> m, source_file |-> d.source_file, target_dir |-> d.target_dir,
   open_dir |-> d.open_dir, last_copy_time |-> NoTime, pc |-> "idle", stopped |-> FALSE]

Blocked(h) == handlers[h].pc \in {"wait", "mkdir"}

\* The directory a handler copies into: its own field.
TargetOf_Current(h) == dicts[cmappings[handlers[h].mapping]].target_dir
TargetOf(h) == handlers[h].target_dir

\* self.last_copy_time[file_path] = mtime: the dict of this handler.
Recorded_ClassLevel(hs, h, mtime) ==
  [k \in DOMAIN hs |-> IF hs[k].source_file = hs[h].source_file
                         THEN [hs[k] EXCEPT !.last_copy_time = mtime] ELSE hs[k]]
Recorded(hs, h, mtime) == [hs EXCEPT ![h].last_copy_time = mtime]

\* The handler's call returns: a stopped observer's thread then ends.
Returned(hs, h) ==
  IF hs[h].stopped THEN [k \in DOMAIN hs \ {h} |-> hs[k]]
                   ELSE [hs EXCEPT ![h].pc = "idle"]

notWatch == <<handlerVars, supVars, cfgVars>>

\* ---- the supervisor thread
\* _reload_config entered from the tray menu or the marker poll.
ReloadMappings ==
  /\ wpc = "idle"
  /\ wstarts < MaxStarts
  /\ wpc' = "stop"
  /\ UNCHANGED <<notWatch, wfile, dicts, cmappings, cprojects, fm_mappings, handlers,
                 wmtime, copied, wstarts, wedits>>

\* _toggle_project: set_project_enabled, save_config (the manager's mappings
\* and projects written to config.json), _reload_config.
ToggleMapping(p) ==
  /\ wpc = "idle"
  /\ wstarts < MaxStarts
  /\ cprojects' = [cprojects EXCEPT ![p] = ~@]
  /\ wfile' = [mappings |-> [i \in DOMAIN cmappings |-> dicts[cmappings[i]]],
               projects |-> cprojects']
  /\ wpc' = "stop"
  /\ UNCHANGED <<notWatch, dicts, cmappings, fm_mappings, handlers, wmtime, copied,
                 wstarts, wedits>>

\* FileMonitor.stop(): an idle observer ends, one inside its handler ends when
\* the call returns; the joins time out and both lists are cleared.
StopWatchers ==
  /\ wpc = "stop"
  /\ handlers' = [h \in {k \in DOMAIN handlers : handlers[k].pc # "idle"} |->
                    [handlers[h] EXCEPT !.stopped = TRUE]]
  /\ wpc' = "load"
  /\ UNCHANGED <<notWatch, wfile, dicts, cmappings, cprojects, fm_mappings, wmtime, copied,
                 wstarts, wedits>>

\* load_config: json.loads builds new dicts, self.mappings refers to them, and
\* validate_config goes through self.mappings changing each dict in place.
LoadMappings ==
  /\ wpc = "load"
  /\ LET refs == [m \in DOMAIN wfile.mappings |-> <<wstarts + 1, m>>]
         made == [d \in DOMAIN dicts \cup {refs[m] : m \in DOMAIN refs} |->
                    IF d \in DOMAIN dicts THEN dicts[d]
                    ELSE validate_mapping(wfile.mappings[d[2]])]
     IN  /\ cmappings' = refs
         /\ dicts' = Kept(made, refs, fm_mappings)
  /\ cprojects' = wfile.projects
  /\ wpc' = "start"
  /\ UNCHANGED <<notWatch, wfile, fm_mappings, handlers, wmtime, copied, wstarts, wedits>>

\* enabled_mappings = get_enabled_mappings(); when there are some,
\* FileMonitor(enabled_mappings).start(): one handler per mapping, with the
\* values its dict holds at this moment.
StartWatchers ==
  /\ wpc = "start"
  /\ LET enabled == EnabledRefs(cmappings, cprojects) IN
       IF DOMAIN enabled = {}
         THEN UNCHANGED <<fm_mappings, handlers, dicts>>
         ELSE /\ fm_mappings' = enabled
              /\ dicts' = Kept(dicts, cmappings, enabled)
              /\ handlers' = [h \in DOMAIN handlers \cup {<<wstarts + 1, m>> : m \in DOMAIN enabled} |->
                                IF h \in DOMAIN handlers THEN handlers[h]
                                ELSE NewHandler(h[2], dicts[enabled[h[2]]])]
  /\ wstarts' = wstarts + 1
  /\ wpc' = "idle"
  /\ UNCHANGED <<notWatch, wfile, cmappings, cprojects, wmtime, copied, wedits>>

\* ---- the observer thread of one handler
\* _handle_file_event for a notification of the handler's source file, down to
\* the call of _wait_for_file_ready.
HandleEvent(h) ==
  /\ h \in DOMAIN handlers
  /\ handlers[h].pc = "idle"
  /\ IF Debounced(wmtime[handlers[h].source_file], handlers[h].last_copy_time)
       THEN UNCHANGED handlers
       ELSE handlers' = [Recorded(handlers, h, wmtime[handlers[h].source_file])
                           EXCEPT ![h].pc = AfterFilter(TRUE)]
  /\ UNCHANGED <<notWatch, wfile, dicts, cmappings, cprojects, fm_mappings, wmtime, copied,
                 wpc, wstarts, wedits>>

\* _wait_for_file_ready returns w.
WaitReturns(h, w) ==
  /\ h \in DOMAIN handlers
  /\ handlers[h].pc = "wait"
  /\ handlers' = IF AfterWaitGoes(w) = "idle" THEN Returned(handlers, h)
                 ELSE [handlers EXCEPT ![h].pc = AfterWaitGoes(w)]
  /\ UNCHANGED <<notWatch, wfile, dicts, cmappings, cprojects, fm_mappings, wmtime, copied,
                 wpc, wstarts, wedits>>

\* _copy_file returns, after its retries: copied into the target directory,
\* or failed.
CopyReturns(h, ok) ==
  /\ h \in DOMAIN handlers
  /\ handlers[h].pc = "mkdir"
  /\ copied' = IF ok THEN [handler |-> h, dir |-> TargetOf(h),
                            blocked |-> {k \in DOMAIN handlers \ {h} : Blocked(k)}]
                     ELSE copied
  /\ handlers' = Returned(handlers, h)
  /\ UNCHANGED <<notWatch, wfile, dicts, cmappings, cprojects, fm_mappings, wmtime,
                 wpc, wstarts, wedits>>

\* ---- outside the program
\* config.json saved by the configuration window or an editor.
EditMappings(f) ==
  /\ wedits < MaxFileEdits
  /\ wedits' = wedits + 1
  /\ wfile' = f
  /\ UNCHANGED <<notWatch, dicts, cmappings, cprojects, fm_mappings, handlers, wmtime, copied,
                 wpc, wstarts>>

\* A source file written one second later.
TouchSource(f) ==
  /\ wmtime[f] < MaxTouches * debounce_window
  /\ wmtime' = [wmtime EXCEPT ![f] = @ + debounce_window]
  /\ UNCHANGED <<notWatch, wfile, dicts, cmappings, cprojects, fm_mappings, handlers, copied,
                 wpc, wstarts, wedits>>

\* main() about to load config.json for the first time.
InitWatchers ==
  /\ HandlerAtRest
  /\ SupervisorAtRest
  /\ ConfigAtRest
  /\ wfile \in MappingFiles
  /\ dicts = <<>>
  /\ cmappings = <<>>
  /\ cprojects = [p \in Projects |-> TRUE]
  /\ fm_mappings = <<>>
  /\ handlers = <<>>
  /\ wpc = "load"
  /\ wmtime = [f \in SourceFiles |-> 0]
  /\ copied = NoCopy
  /\ wstarts = 0
  /\ wedits = 0

NextWatchers ==
  \/ ReloadMappings
  \/ \E p \in Projects : ToggleMapping(p)
  \/ StopWatchers
  \/ LoadMappings
  \/ StartWatchers
  \/ \E h \in DOMAIN handlers : HandleEvent(h)
  \/ \E h \in DOMAIN handlers, w \in {"true", "false"} : WaitReturns(h, w)
  \/ \E h \in DOMAIN handlers, ok \in BOOLEAN : CopyReturns(h, ok)
  \/ \E f \in MappingFiles : EditMappings(f)
  \/ \E f \in SourceFiles : TouchSource(f)

SpecWatchers == InitWatchers /\ [][NextWatchers]_vars


\* ---------------------------------------------------------------------------
\* C29: a running watch session keeps the parameters captured at its creation.
\* ---------------------------------------------------------------------------
Params(h) == [source_file |-> h.source_file, target_dir |-> h.target_dir, open_dir |-> h.open_dir]

\* A step of an observer thread: the supervisor stays where it is, and a
\* handler moves or a copy is made.
WorkerActs == wpc' = wpc /\ (handlers' # handlers \/ copied' # copied)

\* C29: no step (reload, toggle, load_config with its validate_config, a save
\* from outside) changes the parameters of a session that is running before
\* and after it; a copy goes into the target directory the session captured;
\* and a step of a mapping worker leaves the supervisor's mapping list, its
\* mapping dicts and its project map as they were.
C29_SessionParametersFixed ==
  [][/\ \A h \in DOMAIN handlers \cap DOMAIN handlers' :
          Params(handlers'[h]) = Params(handlers[h])
     /\ \A h \in DOMAIN handlers :
          (handlers[h].pc = "mkdir" /\ copied' # copied /\ copied'.handler = h)
             => copied'.dir = handlers[h].target_dir
     /\ WorkerActs => UNCHANGED <<cmappings, dicts, cprojects, fm_mappings>>]_vars

\* A session created by main() copies into its own directory while the
\* session a reload created for the same mapping, with another target
\* directory, is running.
C29_Witness ==
  /\ copied.handler = <<1, 1>>
  /\ <<2, 1>> \in copied.blocked
  /\ <<2, 1>> \in DOMAIN handlers
  /\ handlers[<<2, 1>>].target_dir # copied.dir


\* ---------------------------------------------------------------------------
\* C30: the watchers of different mappings are independent.
\* ---------------------------------------------------------------------------
\* The handler's notification would pass its own debounce check.
OwnCheckPasses(h) ==
  ~Debounced(wmtime[handlers[h].source_file], handlers[h].last_copy_time)

\* C30: whatever the other handlers are doing (blocked in the wait or in the
\* copy's back-off), an idle handler whose own timestamp lets the notification
\* pass can take it into the wait, and a handler at its copy can copy; and a
\* handler's debounce timestamp changes only at its own notification, also
\* when another mapping watches the same source file.
C30_WatchersIndependent ==
  /\ [](\A h \in DOMAIN handlers :
          /\ (handlers[h].pc = "idle" /\ OwnCheckPasses(h))
                => ENABLED (HandleEvent(h) /\ handlers'[h].pc = "wait")
          /\ handlers[h].pc = "mkdir" => ENABLED CopyReturns(h, TRUE))
  /\ [][\A k \in DOMAIN handlers \cap DOMAIN handlers' :
          handlers'[k].last_copy_time # handlers[k].last_copy_time
             => (/\ handlers[k].pc = "idle" /\ handlers'[k].pc = "wait"
                 /\ handlers'[k].last_copy_time = wmtime[handlers[k].source_file]
                 /\ \A j \in (DOMAIN handlers \cap DOMAIN handlers') \ {k} :
                      handlers'[j] = handlers[j])]_vars

\* Two mappings watch the same source file: one handler has copied while the
\* other was blocked, both having recorded the same modification time.
C30_Witness ==
  \E h, k \in DOMAIN handlers :
    /\ h # k
    /\ handlers[h].source_file = handlers[k].source_file
    /\ handlers[h].target_dir # handlers[k].target_dir
    /\ Blocked(k)
    /\ copied.handler = h /\ k \in copied.blocked
    /\ handlers[h].last_copy_time = handlers[k].last_copy_time


\* ---------------------------------------------------------------------------
\* C31: a reload whose load_config fails leaves the watchers as they were.
\* ---------------------------------------------------------------------------
\* The mappings that have a live watch session.
ActiveSet(ss) == {ss[s].map : s \in {x \in DOMAIN ss : ss[x].st \in {"idle", "busy"}}}

\* _reload_config returns through its 'else' branch: load_config was False.
FailedReloadReturns(t) == tpc[t] = "load" /\ tpc'[t] = "idle"

\* C31: when a _reload_config whose load_config failed returns, the mappings
\* with a live watch session are those the last _reload_config to return (or
\* main()) was watching: the enabled mappings it loaded whose source
\* directory exists.
C31_FailedReloadKeepsWatchers ==
  [][\A t \in Threads :
       (FailedReloadReturns(t) /\ applied.ok)
          => ActiveSet(sessions') = applied.enabled \cap dirs]_vars

\* What a failed reload does keep: the FileMonitor the tray refers to, and
\* the manager's enabled flags.
FailedReloadKeepsMonitorField ==
  [][\A t \in Threads :
       FailedReloadReturns(t) => (file_monitor' = file_monitor /\ cm' = cm)]_vars


\* ---------------------------------------------------------------------------
\* C32: a load_config that returns False leaves the manager's fields alone.
\* ---------------------------------------------------------------------------
\* A call of load_config returns False.
LoadFails == nloads' = nloads + 1 /\ loadres' = "failed"

\* C32: a load_config call that returns False leaves ConfigManager.mappings
\* and ConfigManager.projects as they were before the call, so that
\* get_enabled_mappings returns what it returned before.
C32_FailedLoadKeepsFields ==
  [][LoadFails => (cmgr' = cmgr /\ EnabledIndices(cmgr') = EnabledIndices(cmgr))]_vars

\* The part that holds: a file that does not parse leaves the fields alone.
UnparsedLoadKeepsFields ==
  [][(LoadFails /\ ~cfile.parses) => cmgr' = cmgr]_vars


\* ---------------------------------------------------------------------------
\* C33: a failed copy leaves the old target file in place.
\* ---------------------------------------------------------------------------
\* C33: a target file that exists changes only by being replaced with the
\* source's bytes and metadata in an attempt that succeeds; so a _copy_file
\* that ends in failure leaves the file that was there, with its content.
C33_FailedCopyKeepsTarget ==
  [][target.exists => (\/ target' = target
                       \/ (target' = Copy2(source) /\ cres' = "ok"))]_vars

\* The part that holds: an attempt that fails in unlink leaves the target.
FailedUnlinkKeepsTarget ==
  [][(hpc = "attempt" /\ Len(outcomes') = Len(outcomes) + 1
      /\ outcomes'[Len(outcomes')] \in {"perm_unlink", "other_unlink"})
       => target' = target]_vars


\* ===================================================== _quit_app and the end of main()
\* _quit_app, from the tray menu: self.running = False, then
\* self.file_monitor.stop(), whose first loop signals the observers.
QuitApp ==
  /\ tpc["menu"] = "idle"
  /\ running
  /\ running' = FALSE
  /\ LET mon == file_monitor
         signalled == [s \in DOMAIN sessions |->
                         IF s \in monitors[mon].observers
                           THEN [sessions[s] EXCEPT !.st = StopSignal(@)]
                           ELSE sessions[s]]
     IN  /\ tmon' = Bind(tmon, "menu", mon)
         /\ sessions' = Reap(signalled)
         /\ tstopped' = [u \in Threads |->
                           IF u = "menu" THEN monitors[mon].observers \cap Running(signalled)
                                         ELSE tstopped[u] \cap Running(signalled)]
         /\ monitors' = [i \in DOMAIN monitors |->
                           [monitors[i] EXCEPT !.observers = @ \cap Running(signalled)]]
  /\ tpc' = [tpc EXCEPT !["menu"] = "qjoin"]
  /\ UNCHANGED <<handlerVars, cfgVars, watchVars, gui, requested, edits, disk, marker, dirs, cm,
                 file_monitor, tenabled, applied, reloads>>

\* The rest of that stop() (the joins, both lists cleared), and icon.stop().
QuitJoin ==
  /\ tpc["menu"] = "qjoin"
  /\ tmon' = Unbind(tmon, "menu")
  /\ monitors' = Collect([monitors EXCEPT ![tmon["menu"]].observers = {},
                                          ![tmon["menu"]].handlers = 0],
                         file_monitor, tmon')
  /\ tstopped' = [tstopped EXCEPT !["menu"] = {}]
  /\ tpc' = [tpc EXCEPT !["menu"] = "quit"]
  /\ UNCHANGED <<handlerVars, cfgVars, watchVars, running, gui, requested, edits, disk, marker, dirs,
                 cm, file_monitor, sessions, tenabled, applied, reloads>>

\* main() after tray_app.run() has returned: its 'finally' stops the
\* FileMonitor main() created (the first one) and calls tray_app.stop(), which
\* waits up to 1 s for the polling thread.
MainFinally ==
  /\ tpc["menu"] = "quit"
  /\ LET signalled == [s \in DOMAIN sessions |->
                         IF s \in monitors[1].observers
                           THEN [sessions[s] EXCEPT !.st = StopSignal(@)]
                           ELSE sessions[s]]
     IN  /\ sessions' = Reap(signalled)
         /\ tstopped' = [u \in Threads |-> tstopped[u] \cap Running(signalled)]
         /\ monitors' = Collect([i \in DOMAIN monitors |->
                                   IF i = 1 THEN [monitors[i] EXCEPT !.observers = {}, !.handlers = 0]
                                   ELSE [monitors[i] EXCEPT !.observers = @ \cap Running(signalled)]],
                                file_monitor, tmon)
  /\ tpc' = [tpc EXCEPT !["menu"] = "finally"]
  /\ UNCHANGED <<handlerVars, cfgVars, watchVars, running, gui, requested, edits, disk, marker, dirs,
                 cm, file_monitor, tmon, tenabled, applied, reloads>>

NextQuit ==
  \/ MenuReload
  \/ PollReload
  \/ \E t \in Threads : StopObservers(t)
  \/ \E t \in Threads : JoinObservers(t)
  \/ \E t \in Threads : LoadConfig(t)
  \/ \E t \in Threads : CreateMonitor(t)
  \/ \E t \in Threads : StartMonitor(t)
  \/ \E t \in Threads : UnlinkMarker(t)
  \/ \E s \in DOMAIN sessions : Deliver(s)
  \/ \E s \in DOMAIN sessions : HandlerReturns(s)
  \/ \E flags \in [Projects -> BOOLEAN] : GuiSave(flags)
  \/ QuitApp
  \/ QuitJoin
  \/ MainFinally

SpecQuit == Init /\ [][NextQuit]_vars

\* ---------------------------------------------------------------------------
\* C34: after quit, and after the reload in flight has finished, no watcher
\* is alive.
\* ---------------------------------------------------------------------------
\* _quit_app has returned, and the polling thread is not inside _reload_config.
QuitDone == tpc["menu"] \in {"quit", "finally"} /\ tpc["poll"] = "idle"

\* C34: once _quit_app has run and the background thread is out of
\* _reload_config, no observer thread is watching (idle or inside its
\* handler without having been stopped), whatever the interleaving of the
\* quit with a background reload.
C34_NoWatcherAfterQuit ==
  QuitDone => \A s \in DOMAIN sessions : ~Live(s)

\* The part that holds: nothing is started once both threads are out; the
\* polling loop does not enter _reload_config again.
NoReloadAfterQuit ==
  [][QuitDone => (tpc'["poll"] = "idle" /\ DOMAIN sessions' \subseteq DOMAIN sessions)]_vars


\* ===================================================== the configuration window
\* ConfigGUI.__init__: the window's own ConfigManager loads config.json, and
\* refresh_project_list makes one checkbox per project from the flags loaded.
GuiOpen ==
  /\ ~gui.open
  /\ disk.valid
  /\ gui' = [open |-> TRUE, vars |-> disk.projects, changed |-> {}]
  /\ UNCHANGED <<handlerVars, cfgVars, watchVars, running, requested, edits, disk, marker, dirs, cm,
                 file_monitor, monitors, sessions, tpc, tmon, tstopped, tenabled, applied, reloads>>

\* The user clicks the checkbox of project p.
GuiClick(p) ==
  /\ gui.open
  /\ p \notin gui.changed
  /\ gui' = [gui EXCEPT !.vars[p] = ~@, !.changed = @ \cup {p}]
  /\ UNCHANGED <<handlerVars, cfgVars, watchVars, running, requested, edits, disk, marker, dirs, cm,
                 file_monitor, monitors, sessions, tpc, tmon, tstopped, tenabled, applied, reloads>>

\* ConfigGUI.save_config: set_project_enabled from every checkbox, the
\* window's manager saved over config.json, the marker touched.
GuiSaveVars ==
  /\ gui.open
  /\ edits < MaxEdits
  /\ edits' = edits + 1
  /\ disk' = [valid |-> TRUE, projects |-> gui.vars]
  /\ marker' = TRUE
  /\ UNCHANGED <<handlerVars, cfgVars, watchVars, running, gui, requested, dirs, cm,
                 file_monitor, monitors, sessions, tpc, tmon, tstopped, tenabled, applied, reloads>>

NextGui ==
  \/ \E p \in Projects : ToggleProject(p)
  \/ ToggleAll
  \/ PollReload
  \/ \E t \in Threads : StopObservers(t)
  \/ \E t \in Threads : JoinObservers(t)
  \/ \E t \in Threads : LoadConfig(t)
  \/ \E t \in Threads : CreateMonitor(t)
  \/ \E t \in Threads : StartMonitor(t)
  \/ \E t \in Threads : UnlinkMarker(t)
  \/ GuiOpen
  \/ \E p \in Projects : GuiClick(p)
  \/ GuiSaveVars

SpecGui == Init /\ [][NextGui]_vars

\* ---------------------------------------------------------------------------
\* C35: a flag persisted by a tray toggle survives a save of the window.
\* ---------------------------------------------------------------------------
\* ConfigGUI.save_config writes config.json.
WindowSaves == gui.open /\ edits' = edits + 1

\* C35: a save of the configuration window leaves the persisted enabled flag
\* of every project whose checkbox the user did not change since the window
\* loaded as config.json has it, so that a flag a tray toggle persisted in
\* between still holds its toggled value.
C35_ToggleSurvivesWindowSave ==
  [][WindowSaves =>
       \A p \in Projects \ gui.changed : disk'.projects[p] = disk.projects[p]]_vars

\* The part that holds: the window persists the checkboxes the user changed.
WindowSavePersistsClicks ==
  [][WindowSaves => \A p \in gui.changed : disk'.projects[p] = gui.vars[p]]_vars

====
